---- MODULE Spec2Model ----
(***************************************************************************)
(* A model of the arithmetic core of halo2_device_sample                   *)
(* (src/src/arithmetic.rs): multi-scalar multiplication, the radix-2 FFT,  *)
(* the polynomial utilities and the fork-join helper `parallelize`.        *)
(*                                                                         *)
(* The code is generic over a prime field and a prime-order curve.  The    *)
(* model instantiates the field with F_257 (2-adicity 8, so roots of unity *)
(* of every order 2^k up to 256 exist) and the curve with the cyclic group *)
(* of order 257 written additively; a scalar needs two bytes of the        *)
(* 32-byte little-endian representation the MSM code reads.                *)
(***************************************************************************)
EXTENDS Integers, Sequences, FiniteSets, TLC

VARIABLES
    pc,           \* position of the calling thread
    num_threads,  \* multicore::current_num_threads()
    coeffs,       \* MSM: the scalars
    bases,        \* MSM: the curve points
    acc,          \* MSM: what best_multiexp_cpu returned
    small_acc,    \* MSM: what small_multiexp returned
    buf,          \* FFT: the buffer `a`, transformed in place
    buf0,         \* FFT: the buffer as the caller first passed it
    omega,        \* FFT: the root of unity of the forward transform
    log_n,        \* FFT: log2 of the buffer length
    poly,         \* polynomials: a coefficient list, constant term first
    points,       \* polynomials: interpolation points, or the roots
    evals,        \* polynomials: the evaluations to interpolate
    point,        \* polynomials: the point of evaluation (z, b)
    value,        \* polynomials: the field element returned
    quot,         \* polynomials: the quotient kate_division returned
    par_v,        \* parallelize: the mutable slice `v` handed to it
    par_src,      \* parallelize: the vector the closure f reads by offset
    par_chunk,    \* parallelize: its local `chunk`
    par_tasks,    \* parallelize: the tasks spawned in the scope so far
    scope_chunk,  \* best_multiexp_cpu / eval_polynomial: the local chunk size
    scope_tasks,  \* best_multiexp_cpu / eval_polynomial: the tasks spawned so far
    scope_slots,  \* best_multiexp_cpu / eval_polynomial: `results` / `parts`
    handle,       \* device manager: the DeviceManagerContext behind the mutex
    hw_gpus,      \* device manager: the GPU count the driver reports
    fft_cuda,     \* whether the build has the feature fft_cuda
    call,         \* device manager: the last call and its arguments
    ret,          \* device manager: what the last call returned
    msm_result,   \* device manager: the bytes execute_msm returned
    used_gm,      \* device manager: the GPU session the last call ran on
    uploads,      \* device manager: per param_id, the bases uploaded under it
    deinited,     \* device manager: the count of devices the last deinit dropped,
                  \* while no init has succeeded since (empty otherwise)
    window        \* multiexp_serial on slices given by their length alone: the
                  \* length in halves, c and segments

vars == <<pc, num_threads, coeffs, bases, acc, small_acc, buf, buf0, omega, log_n,
          poly, points, evals, point, value, quot, par_v, par_src, par_chunk, par_tasks,
          scope_chunk, scope_tasks, scope_slots, handle, hw_gpus, fft_cuda, call, ret,
          msm_result, used_gm, uploads, deinited, window>>

scopeVars == <<scope_chunk, scope_tasks, scope_slots>>

devVars == <<handle, hw_gpus, fft_cuda, call, ret, msm_result, used_gm, uploads, deinited>>

parVars == <<par_v, par_src, par_chunk, par_tasks>>

polyVars == <<poly, points, evals, point, value, quot>>

msmVars == <<coeffs, bases, acc, small_acc, window>>

fftVars == <<buf, buf0, omega, log_n>>

(***************************************************************************)
(* Bounds of the model.                                                    *)
(***************************************************************************)
\* largest worker count tried
MaxThreads == 3
\* MSM inputs of up to this many points are enumerated exhaustively
MaxPoints == 2
\* largest worker count tried for the FFT (8 workers make a buffer of 8 iterative)
MaxFftThreads == 8
\* FFT buffers have length 2^log_n for log_n up to this
MaxLogN == 3
\* FFT buffer elements are drawn from 0..MaxVal
MaxVal == 2
\* coefficient lists have at most this many coefficients
MaxPolyLen == 4
\* coefficients are drawn from 0..MaxCoeff
MaxCoeff == 2
\* at most this many roots of a vanishing polynomial
MaxRoots == 3
\* at most this many interpolation points
MaxInterp == 3
\* parallelize is handed slices of at most this many elements
MaxParLen == 10
\* the process model of best_multiexp_cpu takes at most this many points
MaxScopeLen == 6
\* the driver reports at most this many GPUs
MaxGpus == 2
\* param_ids are drawn from 1..MaxParamIds
MaxParamIds == 2
\* init is called while the device list has at most this many entries
MaxUnits == 2

(***************************************************************************)
(* Small helpers over sequences.                                           *)
(***************************************************************************)
Min(x, y) == IF x <= y THEN x ELSE y

\* s[from+1 .. from+len], the Rust slice s[from .. from+len]
Slice(s, from, len) == SubSeq(s, from + 1, from + len)

\* number of chunks slice::chunks(size) yields for a slice of length n
NumChunks(n, size) == (n + size - 1) \div size

\* slice::chunks(size): chunk k (from 0) of s
Chunk(s, size, k) == Slice(s, k * size, Min(size, Len(s) - k * size))

(***************************************************************************)
(* The field F: the integers modulo the prime Modulus.                     *)
(***************************************************************************)
Modulus == 257

Field == 0..(Modulus - 1)

FAdd(x, y) == (x + y) % Modulus

FSub(x, y) == (x + Modulus - y) % Modulus

FMul(x, y) == (x * y) % Modulus

FNeg(x) == (Modulus - x) % Modulus

RECURSIVE FPow(_, _)
\* Field::pow_vartime, by squaring
FPow(x, e) ==
    IF e = 0 THEN 1
    ELSE LET h == FPow(x, e \div 2)
         IN IF e % 2 = 0 THEN FMul(h, h) ELSE FMul(FMul(h, h), x)

\* Field::invert (zero has no inverse; 0 stands for the absent value)
FInv(x) == FPow(x, Modulus - 2)

(***************************************************************************)
(* The curve group C::Curve: the cyclic group of order GroupOrder, written *)
(* additively, whose scalar field C::Scalar is F.  Affine and projective   *)
(* forms denote the same element.                                          *)
(***************************************************************************)
GroupOrder == Modulus

\* the elements of the group
Curve == 0..(GroupOrder - 1)

GIdentity == 0

GAdd(x, y) == (x + y) % GroupOrder

GDouble(x) == (x + x) % GroupOrder

\* PrimeField::to_repr: the canonical 32-byte little-endian form of a scalar
ReprBytes == 32

RECURSIVE ReprFrom(_, _)
ReprFrom(s, k) == IF k = 0 THEN <<>> ELSE <<s % 256>> \o ReprFrom(s \div 256, k - 1)

to_repr(s) == ReprFrom(s, ReprBytes)

Pow2(k) == 2 ^ k

RECURSIVE ReprsFrom(_, _, _)
\* the forms of the scalars lo+1 .. hi in order, split in halves
ReprsFrom(cs, lo, hi) ==
    IF hi <= lo THEN <<>>
    ELSE IF hi = lo + 1 THEN <<to_repr(cs[hi])>>
    ELSE LET mid == (lo + hi) \div 2
         IN ReprsFrom(cs, lo, mid) \o ReprsFrom(cs, mid, hi)

\* coeffs.iter().map(|a| a.to_repr()).collect()
ReprsOf(cs) == ReprsFrom(cs, 0, Len(cs))

(***************************************************************************)
(* multiexp_serial: the bucket method.                                     *)
(***************************************************************************)
\* A usize length can exceed what one integer of the model holds, so the
\* window computation takes a length in two halves, len = hi * 2^16 + lo
\* with lo < 2^16.
\* floor(e^k) for k = 1 .. 22, the greatest len with ln(len) <= k, for every k
\* a u32 can reach, each as <<hi, lo>>:
\*   2, 7, 20, 54, 148, 403, 1096, 2980, 8103, 22026, 59874, 162754, 442413,
\*   1202604, 3269017, 8886110, 24154952, 65659969, 178482300, 485165195,
\*   1318815734, 3584912846
ExpFloors ==
    <<<<0, 2>>, <<0, 7>>, <<0, 20>>, <<0, 54>>,
      <<0, 148>>, <<0, 403>>, <<0, 1096>>, <<0, 2980>>,
      <<0, 8103>>, <<0, 22026>>, <<0, 59874>>, <<2, 31682>>,
      <<6, 49197>>, <<18, 22956>>, <<49, 57753>>, <<135, 38750>>,
      <<368, 37704>>, <<1001, 58433>>, <<2723, 27772>>, <<7403, 2187>>,
      <<20123, 34806>>, <<54701, 28110>>>>

\* (f64::from(len as u32)).ln().ceil() as usize for len = hi * 2^16 + lo: the
\* cast keeps the low 32 bits of len, and the result is the least c with
\* e^c >= that number (0 for 0, where the cast of -inf saturates, and for 1)
CeilLnWide(hi, lo) ==
    LET h == hi % Pow2(16)
    IN IF h = 0 /\ lo <= 1 THEN 0
       ELSE 1 + Cardinality({k \in 1..Len(ExpFloors) :
                                IF h = ExpFloors[k][1] THEN lo > ExpFloors[k][2]
                                ELSE h > ExpFloors[k][1]})

CeilLn(len) == CeilLnWide(len \div Pow2(16), len % Pow2(16))

\* the bucket width c chosen from bases.len() = hi * 2^16 + lo
WindowBitsWide(hi, lo) ==
    IF hi = 0 /\ lo < 4 THEN 1
    ELSE IF hi = 0 /\ lo < 32 THEN 3
    ELSE CeilLnWide(hi, lo)

WindowBits(len) == WindowBitsWide(len \div Pow2(16), len % Pow2(16))

\* bit j of the u64 read little-endian from the eight bytes v
BitOf(v, j) == IF j >= 64 THEN 0 ELSE (v[(j \div 8) + 1] \div Pow2(j % 8)) % 2

RECURSIVE BitsValue(_, _, _)
\* the number whose bit k (k < c) is bit sh + k of v: (u64 >> sh) % (1 << c)
BitsValue(v, sh, c) ==
    IF c = 0 THEN 0 ELSE BitOf(v, sh) + 2 * BitsValue(v, sh + 1, c - 1)

get_at(segment, c, bytes) ==
    LET skip_bits == segment * c
        skip_bytes == skip_bits \div 8
    IN IF skip_bytes >= 32 THEN 0
       ELSE LET v == [i \in 1..8 |->
                        IF skip_bytes + i <= Len(bytes) THEN bytes[skip_bytes + i] ELSE 0]
            IN BitsValue(v, skip_bits - (skip_bytes * 8), c)

BucketNone == [tag |-> "None", val |-> GIdentity]

\* Bucket::add_assign
BucketAddAssign(bucket, other) ==
    IF bucket.tag = "None" THEN [tag |-> "Affine", val |-> other]
    ELSE [tag |-> "Projective", val |-> GAdd(bucket.val, other)]

\* Bucket::add
BucketAdd(bucket, other) ==
    IF bucket.tag = "None" THEN other ELSE GAdd(other, bucket.val)

RECURSIVE DoubleTimes(_, _)
DoubleTimes(x, k) == IF k = 0 THEN x ELSE DoubleTimes(GDouble(x), k - 1)

\* the body of the loop over coeffs.iter().zip(bases.iter()) for pair i
FillBucket(buckets, reprs, bs, segment, c, i) ==
    LET coeff == get_at(segment, c, reprs[i])
    IN IF coeff # 0
       THEN [buckets EXCEPT ![coeff] = BucketAddAssign(@, bs[i])]
       ELSE buckets

RECURSIVE FillBuckets(_, _, _, _, _, _, _)
\* the loop over coeffs.iter().zip(bases.iter()) for the pairs lo+1 .. hi in
\* order, split in halves
FillBuckets(buckets, reprs, bs, segment, c, lo, hi) ==
    IF hi <= lo THEN buckets
    ELSE IF hi = lo + 1 THEN FillBucket(buckets, reprs, bs, segment, c, hi)
    ELSE LET mid == (lo + hi) \div 2
             lower == FillBuckets(buckets, reprs, bs, segment, c, lo, mid)
         IN IF DOMAIN lower = DOMAIN buckets
            THEN FillBuckets(lower, reprs, bs, segment, c, mid, hi)
            ELSE lower

\* the body of the summation loop for bucket exp: st holds running_sum and acc
SumStep(buckets, exp, st) ==
    LET running_sum == BucketAdd(buckets[exp], st.running_sum)
    IN [running_sum |-> running_sum, acc |-> GAdd(st.acc, running_sum)]

RECURSIVE SumByParts(_, _, _, _)
\* summation by parts over the buckets hi, hi-1, .., lo+1 (the loop
\* `for exp in buckets.into_iter().rev()`), split in halves
SumByParts(buckets, lo, hi, st) ==
    IF hi <= lo THEN st
    ELSE IF hi = lo + 1 THEN SumStep(buckets, hi, st)
    ELSE LET mid == (lo + hi) \div 2
             upper == SumByParts(buckets, mid, hi, st)
         IN IF upper.acc \in Curve THEN SumByParts(buckets, lo, mid, upper) ELSE upper

\* one pass of the loop body for current_segment: c doublings, the buckets
\* filled from every (coeff, base) pair, then summation by parts
SegmentStep(reprs, bs, c, current_segment, a) ==
    LET doubled == DoubleTimes(a, c)
        empty == [e \in 1..(Pow2(c) - 1) |-> BucketNone]
        buckets == FillBuckets(empty, reprs, bs, current_segment, c,
                               0, Min(Len(reprs), Len(bs)))
    IN SumByParts(buckets, 0, Pow2(c) - 1,
                  [running_sum |-> GIdentity, acc |-> doubled]).acc

RECURSIVE SegmentLoop(_, _, _, _, _, _)
\* the loop `for current_segment in (lo..hi).rev()`, split in halves
SegmentLoop(reprs, bs, c, lo, hi, a) ==
    IF hi <= lo THEN a
    ELSE IF hi = lo + 1 THEN SegmentStep(reprs, bs, c, lo, a)
    ELSE LET mid == (lo + hi) \div 2
             upper == SegmentLoop(reprs, bs, c, mid, hi, a)
         IN IF upper \in Curve THEN SegmentLoop(reprs, bs, c, lo, mid, upper) ELSE upper

\* what multiexp_serial leaves in acc; with c = 0 it panics at `256 / c`
multiexp_serial(cs, bs, a) ==
    LET reprs == ReprsOf(cs)
        c == WindowBits(Len(bs))
    IN IF c = 0 THEN "attempt to divide by zero"
       ELSE SegmentLoop(reprs, bs, c, 0, (256 \div c) + 1, a)

(***************************************************************************)
(* small_multiexp: double-and-add over the 256 bits, most significant      *)
(* first.                                                                  *)
(***************************************************************************)
\* the body of the inner loop for pair i: add the base when the bit is set
AddSetBit(reprs, bs, byte_idx, bit_idx, i, a) ==
    LET byte == reprs[i][byte_idx + 1]
        hit == ((byte \div Pow2(bit_idx)) % 2) # 0
    IN IF hit THEN GAdd(a, bs[i]) ELSE a

RECURSIVE AddSetBits(_, _, _, _, _, _, _)
\* the inner loop over the pairs lo+1 .. hi in order, split in halves
AddSetBits(reprs, bs, byte_idx, bit_idx, lo, hi, a) ==
    IF hi <= lo THEN a
    ELSE IF hi = lo + 1 THEN AddSetBit(reprs, bs, byte_idx, bit_idx, hi, a)
    ELSE LET mid == (lo + hi) \div 2
             lower == AddSetBits(reprs, bs, byte_idx, bit_idx, lo, mid, a)
         IN IF lower \in Curve
            THEN AddSetBits(reprs, bs, byte_idx, bit_idx, mid, hi, lower)
            ELSE lower

RECURSIVE SmallLoop(_, _, _, _, _)
\* the two nested loops over byte_idx and bit_idx, as one loop over the bit
\* positions (lo..hi).rev(), split in halves
SmallLoop(reprs, bs, lo, hi, a) ==
    IF hi <= lo THEN a
    ELSE IF hi = lo + 1
         THEN AddSetBits(reprs, bs, lo \div 8, lo % 8, 0, Len(reprs), GDouble(a))
    ELSE LET mid == (lo + hi) \div 2
             upper == SmallLoop(reprs, bs, mid, hi, a)
         IN IF upper \in Curve THEN SmallLoop(reprs, bs, lo, mid, upper) ELSE upper

small_multiexp(cs, bs) ==
    LET reprs == ReprsOf(cs)
    IN SmallLoop(reprs, bs, 0, ReprBytes * 8, GIdentity)

(***************************************************************************)
(* best_multiexp_cpu                                                       *)
(***************************************************************************)
\* the accumulator the task spawned for chunk k leaves in results[k]
MultiexpChunkResult(cs, bs, chunk, k) ==
    multiexp_serial(Chunk(cs, chunk, k), Chunk(bs, chunk, k), GIdentity)

RECURSIVE FoldResults(_, _, _)
\* results.iter().fold(identity, |a, b| a + b) from slot i on
FoldResults(results, i, a) ==
    IF i > Len(results) THEN a ELSE FoldResults(results, i + 1, GAdd(a, results[i]))

\* coeffs.len() / num_threads rounded up
MultiexpChunkSizeCeil(len, threads) == (len + threads - 1) \div threads

\* `let chunk = coeffs.len() / num_threads`
MultiexpChunkSize(len, threads) == len \div threads

best_multiexp_cpu(cs, bs, threads) ==
    IF Len(cs) > threads
    THEN LET chunk == MultiexpChunkSize(Len(cs), threads)
             num_chunks == NumChunks(Len(cs), chunk)
             results == [k \in 1..num_chunks |-> MultiexpChunkResult(cs, bs, chunk, k - 1)]
         IN FoldResults(results, 1, GIdentity)
    ELSE multiexp_serial(cs, bs, GIdentity)

(***************************************************************************)
(* best_fft_cpu and recursive_butterfly_arithmetic.  The group G of the    *)
(* buffer is the field itself, scaled by field multiplication.             *)
(***************************************************************************)
RECURSIVE log2_from(_, _)
log2_from(num, pow) == IF Pow2(pow + 1) <= num THEN log2_from(num, pow + 1) ELSE pow

log2_floor(num) == log2_from(num, 0)

RECURSIVE bitreverse_from(_, _, _)
bitreverse_from(n, l, r) ==
    IF l = 0 THEN r ELSE bitreverse_from(n \div 2, l - 1, (2 * r) + (n % 2))

\* bitreverse that returns its argument: the permutation is skipped
bitreverse_skipped(n, l) == n

\* the low l bits of n in reverse order
bitreverse(n, l) == bitreverse_from(n, l, 0)

\* slice::swap on positions i and j (from 0)
Swap(s, i, j) == [s EXCEPT ![i + 1] = s[j + 1], ![j + 1] = s[i + 1]]

RECURSIVE BitReverseFrom(_, _, _)
\* the loop `for k in 0..n` that swaps a[k] and a[rk] when k < rk
BitReverseFrom(s, l, k) ==
    IF k >= Len(s) THEN s
    ELSE LET rk == bitreverse(k, l)
         IN BitReverseFrom(IF k < rk THEN Swap(s, rk, k) ELSE s, l, k + 1)

RECURSIVE TwiddlesFrom(_, _, _)
TwiddlesFrom(w, om, k) ==
    IF k = 0 THEN <<>> ELSE <<w>> \o TwiddlesFrom(FMul(w, om), om, k - 1)

\* the n/2 twiddle factors 1, omega, omega^2, ..
Twiddles(om, n) == TwiddlesFrom(1, om, n \div 2)

\* One butterfly pass over a block: the pair (block[i], block[half + i]) is
\* replaced by (x + t, x - t), where t is the right element times the
\* twiddle factor (i * twiddle_chunk, and 1 for the first pair).
ButterflyPass(block, twiddle_chunk, twiddles) ==
    LET half == Len(block) \div 2
        t(i) == IF i = 1 THEN block[half + 1]
                ELSE FMul(block[half + i], twiddles[((i - 1) * twiddle_chunk) + 1])
        lefts == [i \in 1..half |-> FAdd(block[i], t(i))]
        rights == [i \in 1..half |-> FSub(block[i], t(i))]
    IN SubSeq(lefts, 1, half) \o SubSeq(rights, 1, half)

RECURSIVE StageFrom(_, _, _, _, _)
\* a.chunks_mut(chunk).for_each(butterfly) from chunk k on
StageFrom(s, chunk, twiddle_chunk, twiddles, k) ==
    IF k * chunk >= Len(s) THEN <<>>
    ELSE ButterflyPass(Chunk(s, chunk, k), twiddle_chunk, twiddles)
            \o StageFrom(s, chunk, twiddle_chunk, twiddles, k + 1)

RECURSIVE IterativeStages(_, _, _, _, _)
\* the loop `for _ in 0..log_n` with `stages` rounds left
IterativeStages(s, chunk, twiddle_chunk, twiddles, stages) ==
    IF stages = 0 THEN s
    ELSE IterativeStages(StageFrom(s, chunk, twiddle_chunk, twiddles, 0),
                         chunk * 2, twiddle_chunk \div 2, twiddles, stages - 1)

RECURSIVE recursive_butterfly_arithmetic(_, _, _, _)
recursive_butterfly_arithmetic(s, n, twiddle_chunk, twiddles) ==
    IF n = 2
    THEN <<FAdd(s[1], s[2]), FSub(s[1], s[2])>>
    ELSE LET left == recursive_butterfly_arithmetic(
                         SubSeq(s, 1, n \div 2), n \div 2, twiddle_chunk * 2, twiddles)
             right == recursive_butterfly_arithmetic(
                         SubSeq(s, (n \div 2) + 1, n), n \div 2, twiddle_chunk * 2, twiddles)
         IN ButterflyPass(left \o right, twiddle_chunk, twiddles)

\* whether best_fft_cpu takes the iterative branch
FftIterative(l, threads) == l <= log2_floor(threads)

\* the buffer best_fft_cpu leaves, for a buffer of length 2^l
best_fft_cpu(s, om, l, threads) ==
    LET n == Len(s)
        permuted == BitReverseFrom(s, l, 0)
        twiddles == Twiddles(om, n)
    IN IF FftIterative(l, threads)
       THEN IterativeStages(permuted, 2, n \div 2, twiddles, l)
       ELSE recursive_butterfly_arithmetic(permuted, n, 1, twiddles)

RECURSIVE ScaleAll(_, _)
\* `*g *= n_inv` on every element, as g_to_lagrange does after the inverse FFT
ScaleAll(s, k) == IF s = <<>> THEN <<>> ELSE <<FMul(Head(s), k)>> \o ScaleAll(Tail(s), k)

\* TWO_INV.pow_vartime([k]): the inverse of n = 2^k
TwoInv == FInv(2)

\* the inverse of n/2 instead of n
NInvHalf(l) == FPow(TwoInv, IF l = 0 THEN 0 ELSE l - 1)

NInv(l) == FPow(TwoInv, l)

(***************************************************************************)
(* eval_polynomial                                                         *)
(***************************************************************************)
RECURSIVE evaluate(_, _)
\* poly.iter().rev().fold(ZERO, |acc, coeff| acc * point + coeff)
evaluate(p, x) ==
    IF p = <<>> THEN 0 ELSE FAdd(FMul(evaluate(Tail(p), x), x), Head(p))

\* whether eval_polynomial and evaluate_vanishing_polynomial stay serial
StaysSerial(n, threads) == n * 2 < threads

\* the chunk size both functions split their input by
SplitChunkSize(n, threads) == (n + threads - 1) \div threads

\* EvalPart with `start = chunk_idx`
EvalPartUnscaled(p, x, chunk_size, chunk_idx) ==
    FMul(evaluate(Chunk(p, chunk_size, chunk_idx), x), FPow(x, chunk_idx))

\* what the task of chunk chunk_idx writes to out[0]
EvalPart(p, x, chunk_size, chunk_idx) ==
    LET start == chunk_idx * chunk_size
    IN FMul(evaluate(Chunk(p, chunk_size, chunk_idx), x), FPow(x, start))

\* parts after the scope: one slot per worker, the slots of the chunks that
\* exist written by their tasks, the others still ZERO
EvalParts(p, x, threads, chunk_size) ==
    LET slots == [k \in 1..threads |->
                    IF k <= NumChunks(Len(p), chunk_size)
                    THEN EvalPart(p, x, chunk_size, k - 1) ELSE 0]
    IN SubSeq(slots, 1, threads)

RECURSIVE FoldSum(_, _)
\* parts.iter().fold(ZERO, |acc, coeff| acc + coeff), from slot i down to 1
FoldSum(parts, i) == IF i = 0 THEN 0 ELSE FAdd(FoldSum(parts, i - 1), parts[i])

eval_polynomial(p, x, threads) ==
    LET n == Len(p)
    IN IF StaysSerial(n, threads) THEN evaluate(p, x)
       ELSE LET parts == EvalParts(p, x, threads, SplitChunkSize(n, threads))
            IN FoldSum(parts, threads)

(***************************************************************************)
(* kate_division                                                           *)
(***************************************************************************)
RECURSIVE KateFrom(_, _, _, _)
\* the loop that pairs q[i-1] with a[i] for i = len-1 down to 1 (from 0);
\* returns the quotient coefficients q[0..i-1]
KateFrom(p, negb, i, tmp) ==
    IF i = 0 THEN <<>>
    ELSE LET lead_coeff == FSub(p[i + 1], tmp)
         IN KateFrom(p, negb, i - 1, FMul(lead_coeff, negb)) \o <<lead_coeff>>

\* kate_division without `b = -b`
kate_division_unnegated(p, b) == KateFrom(p, b, Len(p) - 1, 0)

\* for an input of at least one coefficient (a.len() - 1 underflows on none)
kate_division(p, b) == KateFrom(p, FNeg(b), Len(p) - 1, 0)

(***************************************************************************)
(* evaluate_vanishing_polynomial                                           *)
(***************************************************************************)
RECURSIVE evaluate_product(_, _)
\* roots.iter().fold(ONE, |acc, point| (z - point) * acc)
evaluate_product(rs, z) ==
    IF rs = <<>> THEN 1
    ELSE FMul(FSub(z, rs[Len(rs)]), evaluate_product(SubSeq(rs, 1, Len(rs) - 1), z))

RECURSIVE FoldProduct(_, _)
\* parts.iter().fold(ONE, |acc, part| acc * part)
FoldProduct(parts, i) == IF i = 0 THEN 1 ELSE FMul(FoldProduct(parts, i - 1), parts[i])

\* what the task of chunk chunk_idx writes to out[0]
VanishPart(rs, z, chunk_size, chunk_idx) ==
    evaluate_product(Chunk(rs, chunk_size, chunk_idx), z)

\* parts allocated as vec![ZERO; num_threads]
VanishPartsZeroed(rs, z, threads, chunk_size) ==
    LET slots == [k \in 1..threads |->
                    IF k <= NumChunks(Len(rs), chunk_size)
                    THEN VanishPart(rs, z, chunk_size, k - 1) ELSE 0]
    IN SubSeq(slots, 1, threads)

\* parts after the scope: the slots without a chunk are still ONE
VanishParts(rs, z, threads, chunk_size) ==
    LET slots == [k \in 1..threads |->
                    IF k <= NumChunks(Len(rs), chunk_size)
                    THEN VanishPart(rs, z, chunk_size, k - 1) ELSE 1]
    IN SubSeq(slots, 1, threads)

evaluate_vanishing_polynomial(rs, z, threads) ==
    LET n == Len(rs)
    IN IF StaysSerial(n, threads) THEN evaluate_product(rs, z)
       ELSE LET parts == VanishParts(rs, z, threads, SplitChunkSize(n, threads))
            IN FoldProduct(parts, threads)

(***************************************************************************)
(* lagrange_interpolate                                                    *)
(***************************************************************************)
\* s without its element j
Without(s, j) == SubSeq(s, 1, j - 1) \o SubSeq(s, j + 1, Len(s))

RECURSIVE DenomFrom(_, _)
DenomFrom(x_j, others) ==
    IF others = <<>> THEN <<>>
    ELSE <<FSub(x_j, Head(others))>> \o DenomFrom(x_j, Tail(others))

\* the differences x_j - x_k for k # j, in the order of k
Denom(pts, j) == DenomFrom(pts[j], Without(pts, j))

\* batch_invert left out: the differences are used as they are
BatchInvertSkipped(s) == s

RECURSIVE BatchInvert(_)
\* BatchInvert::batch_invert: every element inverted, a zero left as it is
BatchInvert(s) ==
    IF s = <<>> THEN <<>>
    ELSE <<IF Head(s) = 0 THEN 0 ELSE FInv(Head(s))>> \o BatchInvert(Tail(s))

\* MulLinear with `b` for `b * denom`
MulLinearUnscaled(tmp, x_k, denom) ==
    LET coef(i) ==
            LET x == IF i <= Len(tmp) THEN tmp[i] ELSE 0
                y == IF i = 1 THEN 0 ELSE tmp[i - 1]
            IN FAdd(FMul(x, FMul(FNeg(denom), x_k)), y)
    IN SubSeq([i \in 1..(Len(tmp) + 1) |-> coef(i)], 1, Len(tmp) + 1)

\* tmp times (X - x_k) * denom: product[i] = a * (-denom * x_k) + b * denom
\* with a = tmp[i] (0 past its end) and b = tmp[i - 1] (0 before its start)
MulLinear(tmp, x_k, denom) ==
    LET coef(i) ==
            LET x == IF i <= Len(tmp) THEN tmp[i] ELSE 0
                y == IF i = 1 THEN 0 ELSE tmp[i - 1]
            IN FAdd(FMul(x, FMul(FNeg(denom), x_k)), FMul(y, denom))
    IN SubSeq([i \in 1..(Len(tmp) + 1) |-> coef(i)], 1, Len(tmp) + 1)

RECURSIVE BasisFrom(_, _, _)
\* the inner loop over (x_k, denom) for the pairs still to come
BasisFrom(tmp, others, denoms) ==
    IF others = <<>> \/ denoms = <<>> THEN tmp
    ELSE BasisFrom(MulLinear(tmp, Head(others), Head(denoms)), Tail(others), Tail(denoms))

\* the interpolation polynomial of point j: 1 at x_j, 0 at the others
BasisPoly(pts, j) == BasisFrom(<<1>>, Without(pts, j), BatchInvert(Denom(pts, j)))

RECURSIVE AccumulateFrom(_, _, _, _)
\* the loop over j that adds interpolation_coeff * eval to final_poly
AccumulateFrom(final_poly, pts, evs, j) ==
    IF j > Len(pts) THEN final_poly
    ELSE LET tmp == BasisPoly(pts, j)
             next == [i \in 1..Len(final_poly) |->
                        IF i <= Len(tmp) THEN FAdd(final_poly[i], FMul(tmp[i], evs[j]))
                        ELSE final_poly[i]]
         IN AccumulateFrom(SubSeq(next, 1, Len(final_poly)), pts, evs, j + 1)

\* for points.len() = evals.len() (the assert_eq! is the caller's step)
lagrange_interpolate(pts, evs) ==
    IF Len(pts) = 1 THEN <<evs[1]>>
    ELSE AccumulateFrom([i \in 1..Len(pts) |-> 0], pts, evs, 1)

(***************************************************************************)
(* The MSM harness: a caller draws an input, then runs both algorithms.    *)
(***************************************************************************)
ScalarSamples == {0, 1, 255, 256}

BaseSamples == {1, 2}

\* every input of at most MaxPoints points over the sample values
MsmSmallInputs ==
    UNION {[1..n -> ScalarSamples] \X [1..n -> BaseSamples] : n \in 0..MaxPoints}

\* the n scalars first, first + step, first + 2 step, .. (mod GroupOrder)
Progression(n, first, step) ==
    [i \in 1..n |-> (first + (i - 1) * step) % GroupOrder]

\* lengths that reach the bucket widths 3 (4 <= len < 32) and ceil(ln len)
\* (len >= 32), in one chunk and in uneven chunks
MsmLongLens == {3, 4, 5, 8, 32, 33}

\* longer inputs: arithmetic progressions of scalars and of points
MsmLongInputs ==
    {<<Progression(n, s, t), Progression(n, u, 1)>> :
        n \in MsmLongLens, s \in {0, 1, 255}, t \in {0, 1, 85}, u \in {1, 256}}

\* lengths on both sides of e^6 and e^7: the bucket width ceil(ln len) is
\* 6 up to 403 points, 7 from 404 and 8 from 1097
MsmWideLens == {404, 1097}

\* inputs that reach the bucket widths 7 and 8: one chunk of 404 or of 1097
\* points with one worker, chunks of 548 points with two
MsmWideInputs ==
    {<<Progression(n, 1, 85), Progression(n, 1, 1)>> : n \in MsmWideLens}

MsmInputs == MsmSmallInputs \cup MsmLongInputs \cup MsmWideInputs

\* the variables of the other components, left at rest
FftIdle == buf = <<>> /\ buf0 = <<>> /\ omega = 1 /\ log_n = 0

\* no slice given by its length alone
NoWindow == [hi |-> 0, lo |-> 0, c |-> 0, segments |-> 0]

MsmIdle ==
    /\ coeffs = <<>>
    /\ bases = <<>>
    /\ acc = GIdentity
    /\ small_acc = GIdentity
    /\ window = NoWindow

ParIdle == par_v = <<>> /\ par_src = <<>> /\ par_chunk = 0 /\ par_tasks = <<>>

PolyIdle ==
    /\ poly = <<>> /\ points = <<>> /\ evals = <<>>
    /\ point = 0 /\ value = 0 /\ quot = <<>>

ScopeIdle == scope_chunk = 0 /\ scope_tasks = <<>> /\ scope_slots = <<>>

\* DeviceManager::new(): the context of GLOBAL_DEVICE_MANAGER before any call
DeviceManagerNew ==
    [gpu_device_num |-> 0,
     actived_device_num |-> 0,
     devices |-> <<>>,
     msm_param_uints |-> <<>>,
     ntt_param_uints |-> <<>>,
     init_flag |-> FALSE]

\* no session: the value of used_gm when a call ran on none
NoGm == [unit |-> "None", bases |-> <<>>, omega |-> <<>>]

\* no call made yet
NoCall == [name |-> "none", param_id |-> 0, bases_index |-> 0]

\* the param_ids the callers use
ParamIds == 1..MaxParamIds

\* nothing uploaded under any param_id
NoUploads == [id \in ParamIds |-> {}]

\* a build without the device features: the manager is never touched
DevIdle ==
    /\ handle = DeviceManagerNew
    /\ hw_gpus = 0
    /\ fft_cuda = FALSE
    /\ call = NoCall
    /\ ret = "none"
    /\ msm_result = <<>>
    /\ used_gm = NoGm
    /\ uploads = NoUploads
    /\ deinited = <<>>

\* lengths of 2^16 points and more, as <<hi, lo>>: around floor(e^22) =
\* 54701 * 2^16 + 28110, around 2^32 = 65536 * 2^16, and between
MsmHugeLens ==
    {1, 54701, 65535, 65536, 65537} \X {0, 1, 2, 4, 31, 32, 28110, 28111, 65535}

\* a caller draws slices that are written out and run in full, or slices of
\* equal length too long to write out, given by their length alone and run
\* by one worker as one chunk
MsmInit ==
    /\ ScopeIdle
    /\ DevIdle
    /\ ParIdle
    /\ FftIdle
    /\ PolyIdle
    /\ acc = GIdentity
    /\ small_acc = GIdentity
    /\ \/ /\ pc = "msm_call"
          /\ num_threads \in 1..MaxThreads
          /\ \E in \in MsmInputs : coeffs = in[1] /\ bases = in[2]
          /\ window = NoWindow
       \/ /\ pc = "serial_call"
          /\ num_threads = 1
          /\ coeffs = <<>>
          /\ bases = <<>>
          /\ \E len \in MsmHugeLens :
                window = [hi |-> len[1], lo |-> len[2], c |-> 0, segments |-> 0]

\* multiexp_serial on a slice given by its length: `let c = if bases.len() < 4
\* { 1 } else if bases.len() < 32 { 3 } else { (..).ln().ceil() as usize }`
MultiexpSerialWindow ==
    /\ pc = "serial_call"
    /\ window' = [window EXCEPT !.c = WindowBitsWide(window.hi, window.lo)]
    /\ pc' = "serial_window"
    /\ UNCHANGED <<num_threads, coeffs, bases, acc, small_acc, fftVars, polyVars, parVars, scopeVars, devVars>>

\* `let segments = (256 / c) + 1`, a panic when c = 0
MultiexpSerialSegments ==
    /\ pc = "serial_window"
    /\ IF window.c = 0
       THEN pc' = "panicked" /\ window' = window
       ELSE pc' = "serial_segments"
            /\ window' = [window EXCEPT !.segments = (256 \div window.c) + 1]
    /\ UNCHANGED <<num_threads, coeffs, bases, acc, small_acc, fftVars, polyVars, parVars, scopeVars, devVars>>

BestMultiexpCpu ==
    /\ pc = "msm_call"
    /\ IF Len(coeffs) # Len(bases)
       THEN pc' = "panicked" /\ acc' = acc
       ELSE pc' = "msm_best_done" /\ acc' = best_multiexp_cpu(coeffs, bases, num_threads)
    /\ UNCHANGED <<window, num_threads, coeffs, bases, small_acc, fftVars, polyVars, parVars, scopeVars, devVars>>

SmallMultiexp ==
    /\ pc = "msm_best_done"
    /\ small_acc' = small_multiexp(coeffs, bases)
    /\ pc' = "msm_done"
    /\ UNCHANGED <<window, num_threads, coeffs, bases, acc, fftVars, polyVars, parVars, scopeVars, devVars>>

MsmNext ==
    \/ BestMultiexpCpu
    \/ SmallMultiexp
    \/ MultiexpSerialWindow
    \/ MultiexpSerialSegments

SpecMsm == MsmInit /\ [][MsmNext]_vars

(***************************************************************************)
(* The FFT harness: a caller draws a buffer and a root of unity, runs the  *)
(* forward transform, then the transform with omega^-1, then scales by     *)
(* n^-1 (the inverse transform as g_to_lagrange performs it).              *)
(***************************************************************************)
\* the elements of multiplicative order exactly n, n a power of two
RootsOfOrder(n) ==
    {w \in Field \ {0} : FPow(w, n) = 1 /\ (n > 1 => FPow(w, n \div 2) # 1)}

\* buffers that are constant but for one element
SpikeBuffers(n) ==
    {[i \in 1..n |-> IF i = j THEN FAdd(x, y) ELSE x] :
        j \in 1..n, x \in 0..MaxVal, y \in 0..MaxVal}

\* every buffer over 0..MaxVal up to length 4, every 0/1 buffer up to length
\* 8, and the spike buffers of any length
Buffers(n) ==
    (IF n <= 4 THEN [1..n -> 0..MaxVal] ELSE {})
        \cup (IF n <= 8 THEN [1..n -> {0, 1}] ELSE {})
        \cup SpikeBuffers(n)

FftInit ==
    /\ ScopeIdle
    /\ DevIdle
    /\ ParIdle
    /\ MsmIdle
    /\ PolyIdle
    /\ pc = "fft_call"
    /\ num_threads \in 1..MaxFftThreads
    /\ log_n \in 0..MaxLogN
    /\ omega \in RootsOfOrder(Pow2(log_n))
    /\ buf0 \in Buffers(Pow2(log_n))
    /\ buf = buf0

\* best_fft_cpu(a, omega, log_n), with its assert_eq!(n, 1 << log_n)
FftForward ==
    /\ pc = "fft_call"
    /\ IF Len(buf) # Pow2(log_n)
       THEN pc' = "panicked" /\ buf' = buf
       ELSE pc' = "fft_forward_done"
            /\ buf' = best_fft_cpu(buf, omega, log_n, num_threads)
    /\ UNCHANGED <<num_threads, buf0, omega, log_n, msmVars, polyVars, parVars, scopeVars, devVars>>

\* best_fft_cpu(a, omega_inv, log_n) on the transformed buffer
FftInverse ==
    /\ pc = "fft_forward_done"
    /\ buf' = best_fft_cpu(buf, FInv(omega), log_n, num_threads)
    /\ pc' = "fft_inverse_done"
    /\ UNCHANGED <<num_threads, buf0, omega, log_n, msmVars, polyVars, parVars, scopeVars, devVars>>

\* every element times n^-1
FftScale ==
    /\ pc = "fft_inverse_done"
    /\ buf' = ScaleAll(buf, NInv(log_n))
    /\ pc' = "fft_scaled"
    /\ UNCHANGED <<num_threads, buf0, omega, log_n, msmVars, polyVars, parVars, scopeVars, devVars>>

FftNext == FftForward \/ FftInverse \/ FftScale

SpecFft == FftInit /\ [][FftNext]_vars

RECURSIVE DftSum(_, _, _, _)
\* sum over j' in j..n-1 of s[j'] * om^(i * j')
DftSum(s, om, i, j) ==
    IF j >= Len(s) THEN 0
    ELSE FAdd(FMul(s[j + 1], FPow(om, i * j)), DftSum(s, om, i, j + 1))

\* C2: after best_fft_cpu, position i holds sum_j a[j] * omega^(i j), in
\* natural order, for the iterative and the recursive strategy alike; and
\* the all-ones buffer of length 8 becomes [8, 0, 0, 0, 0, 0, 0, 0].
C2_FftIsDft ==
    pc = "fft_forward_done" =>
        /\ Len(buf) = Len(buf0)
        /\ \A i \in 0..(Len(buf0) - 1) : buf[i + 1] = DftSum(buf0, omega, i, 0)
        /\ buf0 = <<1, 1, 1, 1, 1, 1, 1, 1>> => buf = <<8, 0, 0, 0, 0, 0, 0, 0>>

\* C2's case: the all-ones buffer of length 8 transformed by the iterative
\* strategy.
C2_Witness ==
    /\ pc = "fft_forward_done"
    /\ log_n = 3
    /\ FftIterative(log_n, num_threads)
    /\ buf0 = <<1, 1, 1, 1, 1, 1, 1, 1>>
    /\ buf = <<8, 0, 0, 0, 0, 0, 0, 0>>

\* C3: forward transform, transform with omega^-1 and scaling by n^-1 give
\* back the original buffer element for element.
C3_FftRoundTrip ==
    pc = "fft_scaled" => buf = buf0

\* C3's case: a buffer of length 8 that is not constant, taken through the
\* recursive strategy and back.
C3_Witness ==
    /\ pc = "fft_scaled"
    /\ log_n = 3
    /\ ~FftIterative(log_n, num_threads)
    /\ buf0 = <<0, 1, 0, 0, 1, 1, 0, 1>>
    /\ buf = buf0

(***************************************************************************)
(* The harnesses of the polynomial utilities: a caller draws an input and  *)
(* calls the function.                                                     *)
(***************************************************************************)
\* every list of at most n elements of S
SeqsUpTo(S, n) == UNION {[1..k -> S] : k \in 0..n}

EvalPoints == {0, 1, 2, 3, Modulus - 1}

EvalInit ==
    /\ ScopeIdle
    /\ DevIdle
    /\ ParIdle
    /\ MsmIdle
    /\ FftIdle
    /\ pc = "eval_call"
    /\ num_threads \in 1..MaxThreads
    /\ poly \in SeqsUpTo(0..MaxCoeff, MaxPolyLen)
    /\ point \in EvalPoints
    /\ points = <<>> /\ evals = <<>> /\ value = 0 /\ quot = <<>>

EvalPolynomial ==
    /\ pc = "eval_call"
    /\ value' = eval_polynomial(poly, point, num_threads)
    /\ pc' = "eval_done"
    /\ UNCHANGED <<num_threads, poly, points, evals, point, quot, msmVars, fftVars, parVars, scopeVars, devVars>>

EvalNext == EvalPolynomial

SpecEval == EvalInit /\ [][EvalNext]_vars

\* polynomials with a root b, and any polynomial with b in 0..2
KateInputs ==
    {in \in (SeqsUpTo(0..(2 * MaxCoeff), MaxPolyLen - 1) \ {<<>>}) \X Field :
        in[2] <= 2 \/ evaluate(in[1], in[2]) = 0}

KateInit ==
    /\ ScopeIdle
    /\ DevIdle
    /\ ParIdle
    /\ MsmIdle
    /\ FftIdle
    /\ pc = "kate_call"
    /\ num_threads \in {1}
    /\ \E in \in KateInputs : poly = in[1] /\ point = in[2]
    /\ points = <<>> /\ evals = <<>> /\ value = 0 /\ quot = <<>>

KateDivision ==
    /\ pc = "kate_call"
    /\ quot' = kate_division(poly, point)
    /\ pc' = "kate_done"
    /\ UNCHANGED <<num_threads, poly, points, evals, point, value, msmVars, fftVars, parVars, scopeVars, devVars>>

KateNext == KateDivision

SpecKate == KateInit /\ [][KateNext]_vars

VanishInit ==
    /\ ScopeIdle
    /\ DevIdle
    /\ ParIdle
    /\ MsmIdle
    /\ FftIdle
    /\ pc = "vanish_call"
    /\ num_threads \in 1..MaxThreads
    /\ points \in SeqsUpTo(0..MaxRoots, MaxRoots)
    /\ point \in 0..(MaxRoots + 1)
    /\ poly = <<>> /\ evals = <<>> /\ value = 0 /\ quot = <<>>

EvaluateVanishingPolynomial ==
    /\ pc = "vanish_call"
    /\ value' = evaluate_vanishing_polynomial(points, point, num_threads)
    /\ pc' = "vanish_done"
    /\ UNCHANGED <<num_threads, poly, points, evals, point, quot, msmVars, fftVars, parVars, scopeVars, devVars>>

VanishNext == EvaluateVanishingPolynomial

SpecVanish == VanishInit /\ [][VanishNext]_vars

PointSamples == {0, 1, 2, 3}

EvalSamples == {0, 1, 4, 9}

Distinct(s) == \A i, j \in 1..Len(s) : i # j => s[i] # s[j]

InterpInit ==
    /\ ScopeIdle
    /\ DevIdle
    /\ ParIdle
    /\ MsmIdle
    /\ FftIdle
    /\ pc = "interp_call"
    /\ num_threads \in 1..MaxThreads
    /\ points \in {s \in SeqsUpTo(PointSamples, MaxInterp) : Distinct(s)}
    /\ evals \in [1..Len(points) -> EvalSamples]
    /\ poly = <<>> /\ point = 0 /\ value = 0 /\ quot = <<>>

\* lagrange_interpolate(points, evals), with its assert_eq! on the lengths
LagrangeInterpolate ==
    /\ pc = "interp_call"
    /\ IF Len(points) # Len(evals)
       THEN pc' = "panicked" /\ poly' = poly
       ELSE pc' = "interp_done" /\ poly' = lagrange_interpolate(points, evals)
    /\ UNCHANGED <<num_threads, points, evals, point, value, quot, msmVars, fftVars, parVars, scopeVars, devVars>>

\* eval_polynomial(&poly, x) on the interpolated polynomial, at one of the
\* points (as test_lagrange_interpolate does) or at 5, which is none of them
EvalInterpolated ==
    /\ pc = "interp_done"
    /\ \E x \in {points[i] : i \in 1..Len(points)} \cup {5} :
          /\ point' = x
          /\ value' = eval_polynomial(poly, x, num_threads)
    /\ pc' = "interp_eval_done"
    /\ UNCHANGED <<num_threads, poly, points, evals, quot, msmVars, fftVars, parVars, scopeVars, devVars>>

InterpNext == LagrangeInterpolate \/ EvalInterpolated

SpecInterp == InterpInit /\ [][InterpNext]_vars

RECURSIVE PowerSum(_, _, _)
\* sum over i' >= i of p[i'] * x^i'
PowerSum(p, x, i) ==
    IF i >= Len(p) THEN 0 ELSE FAdd(FMul(p[i + 1], FPow(x, i)), PowerSum(p, x, i + 1))

\* C4: the interpolated polynomial has as many coefficients as there are
\* points, and eval_polynomial of it at points[i] gives evals[i].
C4_InterpolationHitsEvals ==
    /\ pc \in {"interp_done", "interp_eval_done"} => Len(poly) = Len(points)
    /\ pc = "interp_eval_done" =>
          \A i \in 1..Len(points) : points[i] = point => value = evals[i]

\* C4's case: three points, the evaluation at the last one done on the
\* chunked path.
C4_Witness ==
    /\ pc = "interp_eval_done"
    /\ points = <<2, 0, 3>>
    /\ evals = <<4, 9, 1>>
    /\ point = 3
    /\ value = 1
    /\ ~StaysSerial(Len(poly), num_threads)

\* C5: from points [1, 2, 3] and evals [1, 4, 9] the result is [0, 0, 1],
\* and eval_polynomial of it at 5 is 25.
C5_SquaresScenario ==
    (points = <<1, 2, 3>> /\ evals = <<1, 4, 9>>) =>
        /\ pc \in {"interp_done", "interp_eval_done"} => poly = <<0, 0, 1>>
        /\ (pc = "interp_eval_done" /\ point = 5) => value = 25

\* C5's case: the scenario evaluated at 5.
C5_Witness ==
    /\ pc = "interp_eval_done"
    /\ points = <<1, 2, 3>>
    /\ evals = <<1, 4, 9>>
    /\ poly = <<0, 0, 1>>
    /\ point = 5
    /\ value = 25

\* C6: for p of d + 1 >= 1 coefficients with p(b) = 0, kate_division returns
\* d coefficients q with p(x) = q(x) * (x - b) at every x of the field.
C6_KateDivisionExact ==
    (pc = "kate_done" /\ PowerSum(poly, point, 0) = 0) =>
        /\ Len(quot) = Len(poly) - 1
        /\ \A x \in Field :
              PowerSum(poly, x, 0) = FMul(PowerSum(quot, x, 0), FSub(x, point))

\* C6's case: a quadratic with a nonzero root, divided.
C6_Witness ==
    /\ pc = "kate_done"
    /\ Len(poly) = 3
    /\ poly[3] # 0
    /\ point > 2
    /\ PowerSum(poly, point, 0) = 0
    /\ Len(quot) = 2

\* C7: evaluate_vanishing_polynomial(roots, z) is 0 exactly when z is one of
\* the roots, on the serial and on the chunked path.
C7_VanishesExactlyOnRoots ==
    pc = "vanish_done" =>
        (value = 0 <=> \E i \in 1..Len(points) : points[i] = point)

\* C7's case: z is the last of three roots, on the chunked path.
C7_Witness ==
    /\ pc = "vanish_done"
    /\ Len(points) = 3
    /\ ~StaysSerial(Len(points), num_threads)
    /\ num_threads > 1
    /\ points[3] = point
    /\ points[1] # point
    /\ points[2] # point
    /\ value = 0

\* C8: eval_polynomial equals the single-threaded Horner fold and the sum of
\* poly[i] * point^i, for the empty list too and on the chunked path.
C8_EvalEqualsHorner ==
    pc = "eval_done" =>
        /\ value = evaluate(poly, point)
        /\ value = PowerSum(poly, point, 0)

\* C8's case: four coefficients split in uneven chunks over three workers.
C8_Witness ==
    /\ pc = "eval_done"
    /\ Len(poly) = 4
    /\ num_threads = 3
    /\ ~StaysSerial(Len(poly), num_threads)
    /\ poly[4] # 0
    /\ point > 1
    /\ value = evaluate(poly, point)

(***************************************************************************)
(* parallelize(v, f): the caller computes the chunk size, spawns one task  *)
(* per chunk of v.chunks_mut(chunk) inside a scope, and leaves the scope   *)
(* when every task has run.  The tasks run in any order, each as soon as   *)
(* it is spawned.  f is the closure of g_to_lagrange that fills its chunk  *)
(* from src[start .. start + chunk.len()].                                 *)
(***************************************************************************)
\* the fallback taken to the whole slice: `if chunk < num_threads { chunk = n }`
ParChunkWhole(n, threads) ==
    LET c == n \div threads IN IF c < threads THEN n ELSE c

\* the chunk size: n / num_threads, or 1 when that is below num_threads
ParChunk(n, threads) ==
    LET c == n \div threads IN IF c < threads THEN 1 ELSE c

\* the offset handed to f without the factor `chunk`
ParStartUnscaled(chunk_num, size) == chunk_num

\* `let start = chunk_num * chunk`
ParStart(chunk_num, size) == chunk_num * size

\* where the slice not yet yielded by chunks_mut begins
NextLo(ts) == IF ts = <<>> THEN 0 ELSE ts[Len(ts)].lo + ts[Len(ts)].len

ParInit ==
    /\ ScopeIdle
    /\ DevIdle
    /\ MsmIdle
    /\ FftIdle
    /\ PolyIdle
    /\ pc = "par_call"
    /\ num_threads \in 1..MaxThreads
    /\ \E n \in 0..MaxParLen :
          /\ par_src = [i \in 1..n |-> i]
          /\ par_v = [i \in 1..n |-> 0]
    /\ par_chunk = 0
    /\ par_tasks = <<>>

\* the lines before the scope
ParEnter ==
    /\ pc = "par_call"
    /\ par_chunk' = ParChunk(Len(par_v), num_threads)
    /\ pc' = "par_scope"
    /\ UNCHANGED <<num_threads, par_v, par_src, par_tasks, msmVars, fftVars, polyVars, scopeVars, devVars>>

\* one round of `for (chunk_num, v) in v.chunks_mut(chunk).enumerate()`:
\* the next chunk is cut off and its task spawned
ParSpawn ==
    /\ pc = "par_scope"
    /\ NextLo(par_tasks) < Len(par_v)
    /\ LET chunk_num == Len(par_tasks)
           lo == NextLo(par_tasks)
       IN par_tasks' = Append(par_tasks, [lo |-> lo,
                                  len |-> Min(par_chunk, Len(par_v) - lo),
                                  start |-> ParStart(chunk_num, par_chunk),
                                  done |-> FALSE])
    /\ UNCHANGED <<pc, num_threads, par_v, par_src, par_chunk, msmVars, fftVars, polyVars, scopeVars, devVars>>

\* a spawned task runs f(v, start): element i of its chunk becomes
\* src[start + i]; the slice src[start .. start + len] out of range panics
ParRun(k) ==
    /\ pc = "par_scope"
    /\ ~par_tasks[k].done
    /\ LET t == par_tasks[k]
       IN IF t.start + t.len > Len(par_src)
          THEN pc' = "panicked" /\ UNCHANGED <<window, par_v, par_tasks>>
          ELSE /\ par_v' = [i \in 1..Len(par_v) |->
                              IF t.lo < i /\ i <= t.lo + t.len
                              THEN par_src[t.start + (i - t.lo)]
                              ELSE par_v[i]]
               /\ par_tasks' = [par_tasks EXCEPT ![k].done = TRUE]
               /\ pc' = pc
    /\ UNCHANGED <<num_threads, par_src, par_chunk, msmVars, fftVars, polyVars, scopeVars, devVars>>

\* a scope that ends once every chunk was spawned, without joining the tasks
ParReturnEarly ==
    /\ pc = "par_scope"
    /\ NextLo(par_tasks) >= Len(par_v)
    /\ pc' = "par_returned"
    /\ UNCHANGED <<num_threads, par_v, par_src, par_chunk, par_tasks, msmVars, fftVars, polyVars, scopeVars, devVars>>

\* the scope ends: every chunk was spawned and every task has run
ParReturn ==
    /\ pc = "par_scope"
    /\ NextLo(par_tasks) >= Len(par_v)
    /\ \A k \in 1..Len(par_tasks) : par_tasks[k].done
    /\ pc' = "par_returned"
    /\ UNCHANGED <<num_threads, par_v, par_src, par_chunk, par_tasks, msmVars, fftVars, polyVars, scopeVars, devVars>>

ParNext ==
    \/ ParEnter
    \/ ParSpawn
    \/ \E k \in 1..Len(par_tasks) : ParRun(k)
    \/ ParReturn

SpecPar == ParInit /\ [][ParNext]_vars

\* C9 as stated: the number of chunks does not exceed the worker count, and
\* the chunk size is 1 only when the slice is shorter than the worker count.
C9_ChunkCountAtMostWorkers ==
    pc = "par_returned" =>
        /\ Len(par_tasks) <= num_threads
        /\ (par_chunk = 1 /\ Len(par_v) \div num_threads # 1) => Len(par_v) < num_threads

\* C9, amended: with n >= w * w the chunk size is at least w and there are
\* at most w + 1 chunks; with n < w * w the chunk size is 1 and there are n
\* chunks, which can be more than w.
C9_ChunkCountBound ==
    pc = "par_returned" =>
        /\ Len(par_v) >= num_threads * num_threads =>
              (par_chunk >= num_threads /\ Len(par_tasks) <= num_threads + 1)
        /\ Len(par_v) < num_threads * num_threads =>
              (par_chunk = 1 /\ Len(par_tasks) = Len(par_v))

\* C9's case: 10 elements over 3 workers make 4 chunks of size 3.
C9_Witness ==
    /\ pc = "par_returned"
    /\ Len(par_v) = 10
    /\ num_threads = 3
    /\ par_chunk = 3
    /\ Len(par_tasks) = 4

\* C10: the chunks handed to f are contiguous from index 0, pairwise
\* disjoint, and once all are cut they cover every index exactly once; the
\* offset passed with a chunk is the index of its first element, so f has
\* filled the slice from the same positions of src when parallelize returns.
C10_ChunksPartitionWithOffsets ==
    /\ \A k \in 1..Len(par_tasks) :
          /\ par_tasks[k].start = par_tasks[k].lo
          /\ par_tasks[k].len >= 1
          /\ par_tasks[k].lo = (IF k = 1 THEN 0 ELSE par_tasks[k - 1].lo + par_tasks[k - 1].len)
          /\ par_tasks[k].lo + par_tasks[k].len <= Len(par_v)
    /\ pc = "par_returned" =>
          /\ \A i \in 0..(Len(par_v) - 1) :
                Cardinality({k \in 1..Len(par_tasks) :
                    par_tasks[k].lo <= i /\ i < par_tasks[k].lo + par_tasks[k].len}) = 1
          /\ par_v = par_src

\* C10's case: 10 elements in chunks of 3, 3, 3 and 1, all filled.
C10_Witness ==
    /\ pc = "par_returned"
    /\ Len(par_v) = 10
    /\ Len(par_tasks) = 4
    /\ par_tasks[4].start = 9
    /\ par_tasks[4].len = 1
    /\ par_v = par_src

\* C11: parallelize has returned only when a task was spawned for every chunk
\* and every task has completed, so the caller sees every element processed;
\* this under every interleaving of the tasks.
C11_ReturnsAfterEveryChunk ==
    pc = "par_returned" =>
        /\ NextLo(par_tasks) >= Len(par_v)
        /\ \A k \in 1..Len(par_tasks) : par_tasks[k].done
        /\ \A i \in 1..Len(par_v) : par_v[i] = par_src[i]

\* C11's case: five elements over two workers, three tasks, all joined.
C11_Witness ==
    /\ pc = "par_returned"
    /\ num_threads = 2
    /\ Len(par_v) = 5
    /\ Len(par_tasks) = 3
    /\ \A k \in 1..3 : par_tasks[k].done

(***************************************************************************)
(* best_multiexp_cpu and eval_polynomial as processes: the caller checks   *)
(* its arguments, allocates one result slot per chunk (`results`) or per   *)
(* worker (`parts`), spawns one task per chunk inside multicore::scope,    *)
(* and folds the slots once the scope has ended.  The tasks run in any     *)
(* order, each as soon as it is spawned.                                   *)
(***************************************************************************)
\* the caller's input: scalars and points in arithmetic progression, of equal
\* lengths or of lengths that differ by one
ScopeMsmInputs ==
    {<<Progression(n, s, 1), Progression(m, 1, 1)>> :
        n \in 0..MaxScopeLen, m \in 0..MaxScopeLen, s \in {1, 255}}

ScopePolys == SeqsUpTo({1, 2}, MaxPolyLen)

MultiexpInit ==
    /\ ParIdle
    /\ FftIdle
    /\ PolyIdle
    /\ ScopeIdle
    /\ DevIdle
    /\ pc = "multiexp_call"
    /\ num_threads \in 1..MaxThreads
    /\ \E in \in ScopeMsmInputs :
          /\ coeffs = in[1]
          /\ bases = in[2]
          /\ Len(in[1]) - Len(in[2]) \in {-1, 0, 1}
    /\ acc = GIdentity
    /\ small_acc = GIdentity
    /\ window = NoWindow

EvalScopeInit ==
    /\ ParIdle
    /\ FftIdle
    /\ MsmIdle
    /\ ScopeIdle
    /\ DevIdle
    /\ pc = "eval_scope_call"
    /\ num_threads \in 1..MaxThreads
    /\ poly \in ScopePolys
    /\ point \in {2, 3}
    /\ points = <<>> /\ evals = <<>> /\ value = 0 /\ quot = <<>>

\* best_multiexp_cpu entered without its assert_eq!
MultiexpEnterUnchecked ==
    /\ pc = "multiexp_call"
    /\ IF Len(coeffs) > num_threads
       THEN LET chunk == MultiexpChunkSize(Len(coeffs), num_threads)
            IN /\ scope_chunk' = chunk
               /\ scope_slots' = [k \in 1..NumChunks(Len(coeffs), chunk) |-> GIdentity]
               /\ pc' = "multiexp_scope"
               /\ acc' = acc
       ELSE /\ acc' = multiexp_serial(coeffs, bases, GIdentity)
            /\ pc' = "multiexp_returned"
            /\ UNCHANGED <<window, scope_chunk, scope_slots>>
    /\ UNCHANGED <<window, num_threads, coeffs, bases, small_acc, scope_tasks, fftVars, polyVars, parVars, devVars>>

\* best_multiexp_cpu up to the scope: the assert_eq! on the lengths, then
\* either the serial branch or the chunk size and the vector `results`
MultiexpEnter ==
    /\ pc = "multiexp_call"
    /\ IF Len(coeffs) # Len(bases)
       THEN /\ pc' = "panicked"
            /\ UNCHANGED <<window, acc, scope_chunk, scope_slots>>
       ELSE IF Len(coeffs) > num_threads
       THEN LET chunk == MultiexpChunkSize(Len(coeffs), num_threads)
            IN /\ scope_chunk' = chunk
               /\ scope_slots' = [k \in 1..NumChunks(Len(coeffs), chunk) |-> GIdentity]
               /\ pc' = "multiexp_scope"
               /\ acc' = acc
       ELSE /\ acc' = multiexp_serial(coeffs, bases, GIdentity)
            /\ pc' = "multiexp_returned"
            /\ UNCHANGED <<window, scope_chunk, scope_slots>>
    /\ UNCHANGED <<window, num_threads, coeffs, bases, small_acc, scope_tasks, fftVars, polyVars, parVars, devVars>>

\* whether coeffs.chunks(chunk).zip(bases.chunks(chunk)).zip(results.iter_mut())
\* yields a further item after the k already taken
MultiexpHasNext(k) ==
    /\ k * scope_chunk < Len(coeffs)
    /\ k * scope_chunk < Len(bases)
    /\ k < Len(scope_slots)

\* one round of the spawn loop: the next chunk of coeffs and of bases and the
\* next slot of results go to a new task
MultiexpSpawn ==
    /\ pc = "multiexp_scope"
    /\ MultiexpHasNext(Len(scope_tasks))
    /\ LET k == Len(scope_tasks)
       IN scope_tasks' = Append(scope_tasks,
                                [lo |-> k * scope_chunk,
                                 len |-> Min(scope_chunk, Len(coeffs) - (k * scope_chunk)),
                                 blen |-> Min(scope_chunk, Len(bases) - (k * scope_chunk)),
                                 done |-> FALSE])
    /\ UNCHANGED <<pc, num_threads, scope_chunk, scope_slots, msmVars, fftVars, polyVars, parVars, devVars>>

\* a task that accumulates into the first slot instead of its own
MultiexpRunShared(k) ==
    /\ pc = "multiexp_scope"
    /\ ~scope_tasks[k].done
    /\ scope_slots' = [scope_slots EXCEPT ![1] =
                          multiexp_serial(Slice(coeffs, scope_tasks[k].lo, scope_tasks[k].len),
                                          Slice(bases, scope_tasks[k].lo, scope_tasks[k].blen), @)]
    /\ scope_tasks' = [scope_tasks EXCEPT ![k].done = TRUE]
    /\ UNCHANGED <<pc, num_threads, scope_chunk, msmVars, fftVars, polyVars, parVars, devVars>>

\* the task of chunk k runs multiexp_serial(coeffs, bases, acc) on its chunks
\* and its slot
MultiexpRun(k) ==
    /\ pc = "multiexp_scope"
    /\ ~scope_tasks[k].done
    /\ scope_slots' = [scope_slots EXCEPT ![k] =
                          multiexp_serial(Slice(coeffs, scope_tasks[k].lo, scope_tasks[k].len),
                                          Slice(bases, scope_tasks[k].lo, scope_tasks[k].blen), @)]
    /\ scope_tasks' = [scope_tasks EXCEPT ![k].done = TRUE]
    /\ UNCHANGED <<pc, num_threads, scope_chunk, msmVars, fftVars, polyVars, parVars, devVars>>

\* the scope ends when every task has run; then results is folded
MultiexpJoin ==
    /\ pc = "multiexp_scope"
    /\ ~MultiexpHasNext(Len(scope_tasks))
    /\ \A k \in 1..Len(scope_tasks) : scope_tasks[k].done
    /\ acc' = FoldResults(scope_slots, 1, GIdentity)
    /\ pc' = "multiexp_returned"
    /\ UNCHANGED <<window, num_threads, coeffs, bases, small_acc, scopeVars, fftVars, polyVars, parVars, devVars>>

\* eval_polynomial up to the scope: the serial branch, or chunk_size and the
\* vector `parts` of num_threads zeros
EvalEnter ==
    /\ pc = "eval_scope_call"
    /\ IF StaysSerial(Len(poly), num_threads)
       THEN /\ value' = evaluate(poly, point)
            /\ pc' = "eval_scope_returned"
            /\ UNCHANGED <<window, scope_chunk, scope_slots>>
       ELSE /\ scope_chunk' = SplitChunkSize(Len(poly), num_threads)
            /\ scope_slots' = [k \in 1..num_threads |-> 0]
            /\ pc' = "eval_scope"
            /\ value' = value
    /\ UNCHANGED <<num_threads, poly, points, evals, point, quot, scope_tasks, msmVars, fftVars, parVars, devVars>>

\* whether parts.chunks_mut(1).zip(poly.chunks(chunk_size)) yields a further
\* item after the k already taken
EvalHasNext(k) ==
    /\ k < Len(scope_slots)
    /\ k * scope_chunk < Len(poly)

EvalSpawn ==
    /\ pc = "eval_scope"
    /\ EvalHasNext(Len(scope_tasks))
    /\ LET k == Len(scope_tasks)
       IN scope_tasks' = Append(scope_tasks,
                                [lo |-> k * scope_chunk,
                                 len |-> Min(scope_chunk, Len(poly) - (k * scope_chunk)),
                                 blen |-> 1,
                                 done |-> FALSE])
    /\ UNCHANGED <<pc, num_threads, scope_chunk, scope_slots, msmVars, fftVars, polyVars, parVars, devVars>>

\* the task of chunk k: out[0] = evaluate(poly, point) * point^start
EvalRun(k) ==
    /\ pc = "eval_scope"
    /\ ~scope_tasks[k].done
    /\ scope_slots' = [scope_slots EXCEPT ![k] = EvalPart(poly, point, scope_chunk, k - 1)]
    /\ scope_tasks' = [scope_tasks EXCEPT ![k].done = TRUE]
    /\ UNCHANGED <<pc, num_threads, scope_chunk, msmVars, fftVars, polyVars, parVars, devVars>>

\* the scope ends when every task has run; then parts is folded
EvalJoin ==
    /\ pc = "eval_scope"
    /\ ~EvalHasNext(Len(scope_tasks))
    /\ \A k \in 1..Len(scope_tasks) : scope_tasks[k].done
    /\ value' = FoldSum(scope_slots, Len(scope_slots))
    /\ pc' = "eval_scope_returned"
    /\ UNCHANGED <<num_threads, poly, points, evals, point, quot, scopeVars, msmVars, fftVars, parVars, devVars>>

ScopeInit == MultiexpInit \/ EvalScopeInit

ScopeNext ==
    \/ MultiexpEnter
    \/ MultiexpSpawn
    \/ \E k \in 1..Len(scope_tasks) : MultiexpRun(k)
    \/ MultiexpJoin
    \/ EvalEnter
    \/ EvalSpawn
    \/ \E k \in 1..Len(scope_tasks) : EvalRun(k)
    \/ EvalJoin

SpecScope == ScopeInit /\ [][ScopeNext]_vars

\* C12 as stated: with more points than workers there is one chunk, and one
\* spawned task, per worker.
C12_OneChunkPerWorker ==
    (pc = "multiexp_returned" /\ Len(coeffs) > num_threads) =>
        /\ Len(scope_tasks) = num_threads
        /\ \A k \in 1..Len(scope_tasks) : scope_tasks[k].len = scope_tasks[k].blen

\* C12, amended: with n > w points the chunk size is floor(n / w); coeffs and
\* bases are cut at the same boundaries into contiguous chunks of that size,
\* the last one possibly shorter; there are between w and 2w - 1 chunks and
\* tasks, and exactly w only when w divides n.
C12_ChunkCountFromFloor ==
    (pc = "multiexp_returned" /\ Len(coeffs) > num_threads) =>
        /\ scope_chunk = Len(coeffs) \div num_threads
        /\ Len(scope_tasks) >= num_threads
        /\ Len(scope_tasks) <= (2 * num_threads) - 1
        /\ Len(scope_tasks) = num_threads <=> Len(coeffs) % num_threads = 0
        /\ Len(scope_tasks) = Len(scope_slots)
        /\ \A k \in 1..Len(scope_tasks) :
              /\ scope_tasks[k].lo = (k - 1) * scope_chunk
              /\ scope_tasks[k].len = scope_tasks[k].blen
              /\ scope_tasks[k].len >= 1
              /\ k < Len(scope_tasks) => scope_tasks[k].len = scope_chunk
              /\ k = Len(scope_tasks) =>
                    scope_tasks[k].lo + scope_tasks[k].len = Len(coeffs)

\* C12's case: five points over three workers, five chunks of one point.
C12_Witness ==
    /\ pc = "multiexp_returned"
    /\ Len(coeffs) = 5
    /\ num_threads = 3
    /\ scope_chunk = 1
    /\ Len(scope_tasks) = 5

\* C13: with coeffs and bases of different lengths best_multiexp_cpu panics
\* at its first statement: no slot is allocated, no task spawned, nothing
\* accumulated, and it never returns.
C13_MismatchPanicsFirst ==
    Len(coeffs) # Len(bases) =>
        /\ pc \in {"multiexp_call", "panicked"}
        /\ scope_tasks = <<>>
        /\ scope_slots = <<>>
        /\ acc = GIdentity

\* C13's case: more points than workers, one base missing, panicked.
C13_Witness ==
    /\ pc = "panicked"
    /\ Len(coeffs) > num_threads
    /\ Len(bases) = Len(coeffs) - 1
    /\ scope_tasks = <<>>

\* C20: a slot holds its initial value until its own task has run; the
\* caller folds the slots only when every chunk has a task and every task
\* has run; and the value returned is the one the chunks give when taken in
\* index order, whatever the order the tasks ran in.
C20_FoldAfterJoinIsDeterministic ==
    /\ pc = "multiexp_scope" =>
          \A k \in 1..Len(scope_slots) :
              (k > Len(scope_tasks) \/ ~scope_tasks[k].done) => scope_slots[k] = GIdentity
    /\ pc = "eval_scope" =>
          \A k \in 1..Len(scope_slots) :
              scope_slots[k] = (IF k <= Len(scope_tasks) /\ scope_tasks[k].done
                                THEN EvalPart(poly, point, scope_chunk, k - 1) ELSE 0)
    /\ pc \in {"multiexp_returned", "eval_scope_returned"} =>
          \A k \in 1..Len(scope_tasks) : scope_tasks[k].done
    /\ pc = "multiexp_returned" => acc = best_multiexp_cpu(coeffs, bases, num_threads)
    /\ pc = "eval_scope_returned" => value = eval_polynomial(poly, point, num_threads)

\* C20's case: five points over two workers, three tasks joined and folded.
C20_Witness ==
    /\ pc = "multiexp_returned"
    /\ num_threads = 2
    /\ Len(coeffs) = 5
    /\ Len(scope_tasks) = 3
    /\ \A k \in 1..3 : scope_tasks[k].done
    /\ acc # GIdentity

(***************************************************************************)
(* lagrange_interpolate called with a point that occurs twice.             *)
(***************************************************************************)
InterpDupInit ==
    /\ ParIdle
    /\ MsmIdle
    /\ FftIdle
    /\ ScopeIdle
    /\ DevIdle
    /\ pc = "interp_call"
    /\ num_threads = 1
    /\ points \in {s \in SeqsUpTo(PointSamples, MaxInterp) : ~Distinct(s)}
    /\ evals \in [1..Len(points) -> EvalSamples]
    /\ poly = <<>> /\ point = 0 /\ value = 0 /\ quot = <<>>

InterpDupNext == LagrangeInterpolate

SpecInterpDup == InterpDupInit /\ [][InterpDupNext]_vars

\* C19: when two entries of points are equal, lagrange_interpolate panics
\* and returns no coefficient list.
C19_DuplicatePointPanics ==
    (~Distinct(points) /\ pc # "interp_call") => pc = "panicked"

(***************************************************************************)
(* The device manager (src/src/device): one DeviceManagerContext behind    *)
(* the mutex GLOBAL_DEVICE_MANAGER.  An Option is a sequence of length 0   *)
(* or 1.  The GPU library `panda` is outside the repository: a session     *)
(* (PandaGpuManager) is the record of what was uploaded when it was made,  *)
(* its MSM returns MSM_EXECUTION_RESULT_NUM window sums over the uploaded   *)
(* bases, and its NTT is the transform by the uploaded omega.              *)
(***************************************************************************)
NO_AVAILABE_DEVICE == 4097

MSM_EXECUTION_RESULT_NUM == 254

\* PandaGpuManager::init(0, init_uint_type, bases, omega).unwrap()
PandaGpuManagerInit(t, b, w) == [unit |-> t, bases |-> b, omega |-> w]

RECURSIVE InnerProductBit(_, _, _, _)
\* the sum of the points bs[j] whose scalar cs[j] has bit i set, from j on
InnerProductBit(cs, bs, i, j) ==
    IF j > Min(Len(cs), Len(bs)) THEN GIdentity
    ELSE LET rest == InnerProductBit(cs, bs, i, j + 1)
         IN IF (cs[j] \div Pow2(i)) % 2 = 1 THEN GAdd(bs[j], rest) ELSE rest

\* panda_msm_bn254_gpu(gm, scalars, bases_index).unwrap(): window i (from 0)
\* holds the sum of the uploaded points whose scalar has bit i set
panda_msm_bn254_gpu(gm, scalars, bases_index) ==
    [i \in 1..MSM_EXECUTION_RESULT_NUM |->
        IF i > 16 THEN GIdentity
        ELSE InnerProductBit(scalars, gm.bases[1][bases_index + 1], i - 1, 1)]

\* panda_ntt_bn254_gpu(gm, scalars_bytes, log_n): what the library can answer
\* and leave in the buffer. For 2^log_n elements it is the transform of the
\* buffer by the omega uploaded with the session. For any other length the
\* call is outside what the library is documented for: it may refuse, return
\* with the buffer as it was, or transform the 2^log_n elements it was told
\* of (the elements past them untouched, the missing ones read as 0).
panda_ntt_bn254_gpu(gm, s, l) ==
    IF Len(s) = Pow2(l)
    THEN {[r |-> "Ok", out |-> best_fft_cpu(s, gm.omega[1], l, 1)]}
    ELSE LET n == Pow2(l)
             told == [i \in 1..n |-> IF i <= Len(s) THEN s[i] ELSE 0]
             done == best_fft_cpu(SubSeq(told, 1, n), gm.omega[1], l, 1)
             left == [i \in 1..Len(s) |-> IF i <= n THEN done[i] ELSE s[i]]
         IN {[r |-> "Err", out |-> s],
             [r |-> "Ok", out |-> s],
             [r |-> "Ok", out |-> SubSeq(left, 1, Len(s))]}

RECURSIVE SessionSum(_, _, _, _)
\* `for bucket in values.iter().rev() { running_sum.double();
\* running_sum.add_assign(bucket) }` over values[lo+1 .. hi], split in halves
SessionSum(values, lo, hi, running_sum) ==
    IF hi <= lo THEN running_sum
    ELSE IF hi = lo + 1 THEN GAdd(GDouble(running_sum), values[hi])
    ELSE LET mid == (lo + hi) \div 2
             upper == SessionSum(values, mid, hi, running_sum)
         IN IF upper \in Curve THEN SessionSum(values, lo, mid, upper) ELSE upper

\* session_msm: the window sums combined into one point, returned as the
\* bytes of that point (a vector of one element here)
session_msm(gm, scalars, bases_index) ==
    LET values == panda_msm_bn254_gpu(gm, scalars, bases_index)
        sum == GAdd(GIdentity, SessionSum(values, 0, MSM_EXECUTION_RESULT_NUM, GIdentity))
    IN <<sum>>

\* session_ntt: panda_ntt_bn254_gpu(..).unwrap() and Ok(()); "unwrap" is the
\* panic on the library's error
session_ntt(gm, s, l) ==
    {[r |-> IF lib.r = "Ok" THEN "Ok" ELSE "unwrap", out |-> lib.out] :
        lib \in panda_ntt_bn254_gpu(gm, s, l)}

\* a DeviceUnit as init creates it
NewDeviceUnit(device_id, unit_type) ==
    [device_id |-> device_id,
     device_type |-> "DeviceTypeGPU",
     device_unit_type |-> unit_type,
     device_status |-> "DeviceStatusReady"]

\* one round of `for device_id in 0..self.gpu_device_num` for a unit type
\* MSM, NTT or ALL (with the param_id present where it is needed)
InitDevice(h, t, id, gm, device_id) ==
    LET msm_param_uint == [param_id |-> id, in_usze |-> TRUE, init_flag |-> TRUE, gm |-> gm]
        ntt_param_uint == [in_usze |-> TRUE, init_flag |-> TRUE, gm |-> gm]
        msm_device == NewDeviceUnit(device_id, "DeviceUnitTypeMSM")
        ntt_device == NewDeviceUnit(device_id, "DeviceUnitTypeNTT")
    IN IF t = "MSM"
       THEN [h EXCEPT !.msm_param_uints = Append(@, msm_param_uint),
                      !.devices = Append(@, msm_device)]
       ELSE IF t = "NTT"
       THEN [h EXCEPT !.ntt_param_uints = Append(@, ntt_param_uint),
                      !.devices = Append(@, ntt_device)]
       ELSE [h EXCEPT !.msm_param_uints = Append(@, msm_param_uint),
                      !.ntt_param_uints = Append(@, ntt_param_uint),
                      !.devices = Append(Append(@, msm_device), ntt_device)]

RECURSIVE InitLoop(_, _, _, _, _, _)
\* the loop over device_id, each round with a session of its own
InitLoop(h, t, id, b, w, device_id) ==
    IF device_id >= h.gpu_device_num THEN h
    ELSE InitLoop(InitDevice(h, t, id, PandaGpuManagerInit(t, b, w), device_id),
                  t, id, b, w, device_id + 1)

\* DeviceManagerContext::init with the driver reporting hw GPUs: the context
\* it leaves and what it returns ("todo" is the panic of todo!())
init(h, t, param_id, b, w, hw) ==
    LET counted == [h EXCEPT !.gpu_device_num = hw]
    IN IF hw = 0
       THEN [h |-> counted, r |-> "DeviceManagerErrorGetDeviceNum"]
       ELSE IF t = "None"
       THEN [h |-> counted, r |-> "todo"]
       ELSE IF t \in {"MSM", "ALL"} /\ param_id = <<>>
       THEN [h |-> counted, r |-> "DeviceManagerErrorGetDeviceNum"]
       ELSE LET id == IF param_id = <<>> THEN 0 ELSE param_id[1]
                looped == InitLoop(counted, t, id, b, w, 0)
            IN [h |-> [looped EXCEPT !.actived_device_num = looped.gpu_device_num,
                                     !.init_flag = TRUE],
                r |-> "Ok"]

\* a deinit that drops the parameter units and the flag but keeps the
\* devices and their count
deinitKeepsDevices(h) ==
    [h EXCEPT !.msm_param_uints = <<>>,
              !.ntt_param_uints = <<>>,
              !.init_flag = FALSE]

\* DeviceManagerContext::deinit
deinit(h) ==
    [h EXCEPT !.gpu_device_num = 0,
              !.actived_device_num = 0,
              !.msm_param_uints = <<>>,
              !.ntt_param_uints = <<>>,
              !.devices = <<>>,
              !.init_flag = FALSE]

\* DeviceManagerContext::get_device_id with the driver reporting hw GPUs:
\* the context it leaves and what it returns (Ok carries the count it left
\* in gpu_device_num)
get_device_id(h, hw) ==
    [h |-> [h EXCEPT !.gpu_device_num = hw],
     r |-> IF hw = 0 THEN "DeviceManagerErrorGetDeviceNum" ELSE "Ok"]

RECURSIVE AvailableFrom(_, _)
\* the loop of get_available_device from index i: the first device, which
\* must be Ready (any other status, or no device at the index, panics)
AvailableFrom(h, i) ==
    IF i >= h.actived_device_num THEN [r |-> "Ok", id |-> NO_AVAILABE_DEVICE]
    ELSE IF i >= Len(h.devices) THEN [r |-> "index", id |-> i]
    ELSE IF h.devices[i + 1].device_status = "DeviceStatusReady" THEN [r |-> "Ok", id |-> i]
    ELSE [r |-> "todo", id |-> i]

get_available_device(h) == AvailableFrom(h, 0)

\* the device at index device_id marked as running a computation
MarkRunning(h, device_id, unit_type) ==
    IF device_id < Len(h.devices)
    THEN [h EXCEPT !.devices[device_id + 1].device_id = device_id,
                   !.devices[device_id + 1].device_status = "DeviceStatusRunning",
                   !.devices[device_id + 1].device_unit_type = unit_type]
    ELSE h

\* an execute_msm / execute_ntt that returns with the device as it was
\* while running
MarkReadySkipped(h, device_id) == h

\* the device at index device_id given back
MarkReady(h, device_id) ==
    IF device_id < Len(h.devices)
    THEN [h EXCEPT !.devices[device_id + 1].device_status = "DeviceStatusReady",
                   !.devices[device_id + 1].device_unit_type = "DeviceUnitTypeNone"]
    ELSE h

\* a lookup that takes the first parameter unit whatever its param_id
FindMsmParamUnitFirst(units, msm_param_id, i) ==
    IF i > Len(units) THEN 0 ELSE i

RECURSIVE FindMsmParamUnit(_, _, _)
\* the loop over msm_param_uints from position i: the position of the first
\* unit with the param_id asked for, or 0
FindMsmParamUnit(units, msm_param_id, i) ==
    IF i > Len(units) THEN 0
    ELSE IF units[i].param_id = msm_param_id THEN i
    ELSE FindMsmParamUnit(units, msm_param_id, i + 1)

\* DeviceManagerContext::execute_msm: the context it leaves, what it returns
\* (r and, for Ok, the bytes out) and the session it ran on
execute_msm(h, msm_param_id, bases_index, scalars) ==
    LET avail == get_available_device(h)
        device_id == avail.id
    IN IF avail.r # "Ok"
       THEN [h |-> h, r |-> avail.r, out |-> <<>>, gm |-> NoGm]
       ELSE IF device_id # NO_AVAILABE_DEVICE
       THEN LET found == FindMsmParamUnit(h.msm_param_uints, msm_param_id, 1)
                gm == IF found # 0 THEN h.msm_param_uints[found].gm ELSE NoGm
                bytes == IF found # 0 /\ device_id < Len(h.devices)
                         THEN session_msm(gm, scalars, bases_index)
                         ELSE <<>>
            IN [h |-> MarkReady(MarkRunning(h, device_id, "DeviceUnitTypeMSM"), device_id),
                r |-> "Ok",
                out |-> bytes,
                gm |-> IF device_id < Len(h.devices) THEN gm ELSE NoGm]
       ELSE [h |-> h, r |-> "DeviceManagerErrorNoAvailableDevice", out |-> <<>>, gm |-> NoGm]

\* DeviceManagerContext::execute_ntt on the buffer s: the outcomes of the
\* call (one, unless the session is handed a buffer whose length is not 2^l),
\* each the context it leaves, what it returns, the buffer and the session
\* it ran on. "index" is the panic of ntt_param_uints[0] on an empty list
\* and "unwrap" the panic of the session on the library's error, both with
\* the device left Running. No statement looks at the length of s.
execute_ntt(h, s, l) ==
    LET avail == get_available_device(h)
        device_id == avail.id
    IN IF avail.r # "Ok"
       THEN {[h |-> h, r |-> avail.r, out |-> s, gm |-> NoGm]}
       ELSE IF device_id # NO_AVAILABE_DEVICE
       THEN IF device_id >= Len(h.devices)
            THEN {[h |-> h, r |-> "Ok", out |-> s, gm |-> NoGm]}
            ELSE IF h.ntt_param_uints = <<>>
            THEN {[h |-> MarkRunning(h, device_id, "DeviceUnitTypeNTT"),
                   r |-> "index", out |-> s, gm |-> NoGm]}
            ELSE LET gm == h.ntt_param_uints[1].gm
                     running == MarkRunning(h, device_id, "DeviceUnitTypeNTT")
                 IN {[h |-> IF ses.r = "Ok" THEN MarkReady(running, device_id) ELSE running,
                      r |-> ses.r,
                      out |-> ses.out,
                      gm |-> gm] : ses \in session_ntt(gm, s, l)}
       ELSE {[h |-> h, r |-> "DeviceManagerErrorNoAvailableDevice", out |-> s, gm |-> NoGm]}

(***************************************************************************)
(* The callers of the device manager: between two calls the mutex is free  *)
(* and any call may come next; a call runs to its end with the mutex held. *)
(* A panic ends the calling thread; after a call that returned the caller  *)
(* looks at the result and lets go of it before the next call.             *)
(***************************************************************************)
\* what a caller uploads: the pair of base vectors (g_lagrange, g)
UploadSamples == {<<<<1, 2>>, <<3, 4>>>>, <<<<5, 6>>, <<7, 8>>>>}

\* the roots of unity a caller uploads or passes with a buffer of length 4
OmegaSamples == RootsOfOrder(4)

\* the scalars of an MSM call
DevScalars == <<3, 256>>

\* the points handed to best_multiexp
DevBases == <<1, 2>>

\* the buffer of an FFT call, and its log_n
DevBuffer == <<1, 2, 3, 4>>

DevLogN == 2

\* what an uninitialised group element can read as: whatever the allocator
\* left in the block, any element or (as GroupOrder) any bit pattern that
\* is no element
UninitValues == 0..GroupOrder

\* the arguments (unit type, param_id, bases, omega) init is called with
InitArgs ==
    {<<"None", <<>>, <<>>, <<>>>>}
        \cup {<<"MSM", id, <<u>>, <<>>>> :
                id \in {<<>>} \cup {<<i>> : i \in ParamIds}, u \in UploadSamples}
        \cup {<<"NTT", <<>>, <<>>, <<o>>>> : o \in OmegaSamples}
        \cup {<<"ALL", id, <<u>>, <<o>>>> :
                id \in {<<>>} \cup {<<i>> : i \in ParamIds},
                u \in UploadSamples, o \in OmegaSamples}

DevInit ==
    /\ ParIdle
    /\ MsmIdle
    /\ FftIdle
    /\ PolyIdle
    /\ ScopeIdle
    /\ pc = "dev_idle"
    /\ num_threads = 2
    /\ handle = DeviceManagerNew
    /\ hw_gpus \in 0..MaxGpus
    /\ fft_cuda \in BOOLEAN
    /\ call = NoCall
    /\ ret = "none"
    /\ msm_result = <<>>
    /\ used_gm = NoGm
    /\ uploads = NoUploads
    /\ deinited = <<>>

\* the bases recorded under the param_id of a successful MSM or ALL init
Uploaded(ups, t, param_id, b, r) ==
    IF r = "Ok" /\ t \in {"MSM", "ALL"} /\ param_id # <<>> /\ b # <<>>
    THEN [ups EXCEPT ![param_id[1]] = @ \cup {b[1]}]
    ELSE ups

\* a call leaves no MSM data behind
NoMsmData == coeffs' = <<>> /\ bases' = <<>> /\ acc' = GIdentity /\ msm_result' = <<>>

\* a call leaves no FFT data behind
NoFftData == buf' = <<>> /\ buf0' = <<>> /\ omega' = 1 /\ log_n' = 0

\* a caller calls DeviceManagerContext::init itself
ManagerInit ==
    /\ pc = "dev_idle"
    /\ Len(handle.devices) < MaxUnits
    /\ \E args \in InitArgs :
          \E res \in {init(handle, args[1], args[2], args[3], args[4], hw_gpus)} :
             /\ Len(res.h.devices) <= MaxUnits
             /\ handle' = res.h
             /\ ret' = res.r
             /\ pc' = (IF res.r = "todo" THEN "panicked" ELSE "dev_returned")
             /\ uploads' = Uploaded(uploads, args[1], args[2], args[3], res.r)
             /\ deinited' = (IF res.r = "Ok" THEN <<>> ELSE deinited)
             /\ call' = [name |-> "init",
                         param_id |-> IF args[2] = <<>> THEN 0 ELSE args[2][1],
                         bases_index |-> 0]
    /\ used_gm' = NoGm
    /\ NoMsmData
    /\ NoFftData
    /\ UNCHANGED <<window, num_threads, small_acc, hw_gpus, fft_cuda, polyVars, parVars, scopeVars>>

\* best_init_gpu(param_id, bases): init for MSM, unwrapped
BestInitGpu ==
    /\ pc = "dev_idle"
    /\ Len(handle.devices) < MaxUnits
    /\ \E id \in ParamIds, u \in UploadSamples :
          \E res \in {init(handle, "MSM", <<id>>, <<u>>, <<>>, hw_gpus)} :
             /\ Len(res.h.devices) <= MaxUnits
             /\ handle' = res.h
             /\ ret' = res.r
             /\ pc' = (IF res.r # "Ok" THEN "panicked" ELSE "dev_returned")
             /\ uploads' = Uploaded(uploads, "MSM", <<id>>, <<u>>, res.r)
             /\ deinited' = (IF res.r = "Ok" THEN <<>> ELSE deinited)
             /\ call' = [name |-> "best_init_gpu", param_id |-> id, bases_index |-> 0]
    /\ used_gm' = NoGm
    /\ NoMsmData
    /\ NoFftData
    /\ UNCHANGED <<window, num_threads, small_acc, hw_gpus, fft_cuda, polyVars, parVars, scopeVars>>

\* best_fft_init_gpu(omega): init for NTT, its result dropped
BestFftInitGpu ==
    /\ pc = "dev_idle"
    /\ Len(handle.devices) < MaxUnits
    /\ \E o \in OmegaSamples :
          \E res \in {init(handle, "NTT", <<>>, <<>>, <<o>>, hw_gpus)} :
             /\ Len(res.h.devices) <= MaxUnits
             /\ handle' = res.h
             /\ ret' = res.r
             /\ deinited' = (IF res.r = "Ok" THEN <<>> ELSE deinited)
    /\ pc' = "dev_returned"
    /\ call' = [name |-> "best_fft_init_gpu", param_id |-> 0, bases_index |-> 0]
    /\ used_gm' = NoGm
    /\ NoMsmData
    /\ NoFftData
    /\ UNCHANGED <<window, num_threads, small_acc, hw_gpus, fft_cuda, uploads, polyVars, parVars, scopeVars>>

\* a caller calls DeviceManagerContext::deinit
Deinit ==
    /\ pc = "dev_idle"
    /\ handle' = deinit(handle)
    /\ ret' = "Ok"
    /\ pc' = "dev_returned"
    /\ uploads' = NoUploads
    /\ deinited' = <<Len(handle.devices)>>
    /\ call' = [name |-> "deinit", param_id |-> 0, bases_index |-> 0]
    /\ used_gm' = NoGm
    /\ NoMsmData
    /\ NoFftData
    /\ UNCHANGED <<window, num_threads, small_acc, hw_gpus, fft_cuda, polyVars, parVars, scopeVars>>

\* a caller calls DeviceManagerContext::get_device_id
GetDeviceId ==
    /\ pc = "dev_idle"
    /\ \E res \in {get_device_id(handle, hw_gpus)} :
          /\ handle' = res.h
          /\ ret' = res.r
    /\ pc' = "dev_returned"
    /\ call' = [name |-> "get_device_id", param_id |-> 0, bases_index |-> 0]
    /\ used_gm' = NoGm
    /\ NoMsmData
    /\ NoFftData
    /\ UNCHANGED <<window, num_threads, small_acc, hw_gpus, fft_cuda, uploads, deinited, polyVars, parVars, scopeVars>>

\* a caller calls DeviceManagerContext::execute_msm itself
ExecuteMsm ==
    /\ pc = "dev_idle"
    /\ \E id \in ParamIds, bases_index \in {0, 1} :
          \E res \in {execute_msm(handle, id, bases_index, DevScalars)} :
             /\ handle' = res.h
             /\ ret' = res.r
             /\ msm_result' = res.out
             /\ used_gm' = res.gm
             /\ pc' = (IF res.r \in {"todo", "index"} THEN "panicked" ELSE "dev_returned")
             /\ call' = [name |-> "execute_msm", param_id |-> id, bases_index |-> bases_index]
    /\ coeffs' = DevScalars
    /\ bases' = <<>>
    /\ acc' = GIdentity
    /\ NoFftData
    /\ UNCHANGED <<window, num_threads, small_acc, hw_gpus, fft_cuda, uploads, deinited, polyVars, parVars, scopeVars>>

\* best_multiexp_gpu(coeffs, _bases, param_id, bases_index): execute_msm
\* unwrapped, its bytes copied over an uninitialised C::Curve of which
\* they cover nothing when there are none
BestMultiexpGpu ==
    /\ pc = "dev_idle"
    /\ \E id \in ParamIds, bases_index \in {0, 1} :
          \E res \in {execute_msm(handle, id, bases_index, DevScalars)} :
             /\ handle' = res.h
             /\ ret' = res.r
             /\ msm_result' = res.out
             /\ used_gm' = res.gm
             /\ call' = [name |-> "best_multiexp_gpu", param_id |-> id,
                         bases_index |-> bases_index]
             /\ IF res.r # "Ok"
                THEN pc' = "panicked" /\ acc' = GIdentity
                ELSE /\ pc' = "dev_returned"
                     /\ IF res.out = <<>>
                        THEN acc' \in UninitValues
                        ELSE acc' = res.out[1]
    /\ coeffs' = DevScalars
    /\ bases' = <<>>
    /\ NoFftData
    /\ UNCHANGED <<window, num_threads, small_acc, hw_gpus, fft_cuda, uploads, deinited, polyVars, parVars, scopeVars>>

\* best_multiexp(coeffs, bases): always best_multiexp_cpu
BestMultiexp ==
    /\ pc = "dev_idle"
    /\ bases' = DevBases
    /\ acc' = best_multiexp_cpu(DevScalars, DevBases, num_threads)
    /\ call' = [name |-> "best_multiexp", param_id |-> 0, bases_index |-> 0]
    /\ coeffs' = DevScalars
    /\ ret' = "Ok"
    /\ msm_result' = <<>>
    /\ used_gm' = NoGm
    /\ pc' = "dev_returned"
    /\ NoFftData
    /\ UNCHANGED <<window, num_threads, small_acc, handle, hw_gpus, fft_cuda, uploads, deinited, polyVars, parVars, scopeVars>>

\* a caller calls DeviceManagerContext::execute_ntt itself
ExecuteNtt ==
    /\ pc = "dev_idle"
    /\ \E res \in execute_ntt(handle, DevBuffer, DevLogN) :
          /\ handle' = res.h
          /\ ret' = res.r
          /\ buf' = res.out
          /\ used_gm' = res.gm
          /\ pc' = (IF res.r \in {"todo", "index", "unwrap"} THEN "panicked" ELSE "dev_returned")
    /\ buf0' = DevBuffer
    /\ omega' = 1
    /\ log_n' = DevLogN
    /\ call' = [name |-> "execute_ntt", param_id |-> 0, bases_index |-> 0]
    /\ NoMsmData
    /\ UNCHANGED <<window, num_threads, small_acc, hw_gpus, fft_cuda, uploads, deinited, polyVars, parVars, scopeVars>>

\* best_fft(a, omega, log_n): best_fft_gpu (execute_ntt unwrapped, omega
\* unused) in a build with fft_cuda, best_fft_cpu in one without
BestFft ==
    /\ pc = "dev_idle"
    /\ \E o \in OmegaSamples :
          /\ omega' = o
          /\ IF fft_cuda
             THEN \E res \in execute_ntt(handle, DevBuffer, DevLogN) :
                     /\ handle' = res.h
                     /\ ret' = res.r
                     /\ buf' = res.out
                     /\ used_gm' = res.gm
                     /\ pc' = (IF res.r # "Ok" THEN "panicked" ELSE "dev_returned")
             ELSE /\ buf' = best_fft_cpu(DevBuffer, o, DevLogN, num_threads)
                  /\ handle' = handle
                  /\ ret' = "Ok"
                  /\ used_gm' = NoGm
                  /\ pc' = "dev_returned"
    /\ buf0' = DevBuffer
    /\ log_n' = DevLogN
    /\ call' = [name |-> "best_fft", param_id |-> 0, bases_index |-> 0]
    /\ NoMsmData
    /\ UNCHANGED <<window, num_threads, small_acc, hw_gpus, fft_cuda, uploads, deinited, polyVars, parVars, scopeVars>>

\* the caller is done with what the call returned
DropResult ==
    /\ pc = "dev_returned"
    /\ pc' = "dev_idle"
    /\ call' = NoCall
    /\ ret' = "none"
    /\ used_gm' = NoGm
    /\ NoMsmData
    /\ NoFftData
    /\ UNCHANGED <<window, num_threads, small_acc, handle, hw_gpus, fft_cuda, uploads, deinited, polyVars, parVars, scopeVars>>

DevNext ==
    \/ ManagerInit
    \/ BestInitGpu
    \/ BestFftInitGpu
    \/ Deinit
    \/ GetDeviceId
    \/ ExecuteMsm
    \/ BestMultiexpGpu
    \/ BestMultiexp
    \/ ExecuteNtt
    \/ BestFft
    \/ DropResult

SpecDev == DevInit /\ [][DevNext]_vars

(***************************************************************************)
(* best_fft called with buffers of any length.  In a build without         *)
(* fft_cuda it is best_fft_cpu, taken statement by statement: the          *)
(* assert_eq! on the length, the bit-reversal permutation, the butterfly   *)
(* passes.  In a build with fft_cuda it is best_fft_gpu: execute_ntt on    *)
(* the buffer as passed, unwrapped.                                        *)
(***************************************************************************)
\* buffers of pairwise different elements, so that a permutation shows
CheckBuffers(n) == {[i \in 1..n |-> i], [i \in 1..n |-> FMul(i + 1, i + 1)]}

FftCheckInit ==
    /\ ParIdle
    /\ MsmIdle
    /\ FftIdle
    /\ PolyIdle
    /\ ScopeIdle
    /\ pc = "dev_idle"
    /\ num_threads \in {1, MaxFftThreads}
    /\ handle = DeviceManagerNew
    /\ hw_gpus \in 0..MaxGpus
    /\ fft_cuda \in BOOLEAN
    /\ call = NoCall
    /\ ret = "none"
    /\ msm_result = <<>>
    /\ used_gm = NoGm
    /\ uploads = NoUploads
    /\ deinited = <<>>

\* a caller calls best_fft(a, omega, log_n) with a buffer of any length
BestFftEntry ==
    /\ pc = "dev_idle"
    /\ \E l \in 0..MaxLogN, n \in 0..(Pow2(MaxLogN) + 1) :
          /\ log_n' = l
          /\ omega' \in RootsOfOrder(Pow2(l))
          /\ \E a \in CheckBuffers(n) : buf0' = a /\ buf' = a
    /\ pc' = "fft_entry"
    /\ call' = [name |-> "best_fft", param_id |-> 0, bases_index |-> 0]
    /\ ret' = "none"
    /\ used_gm' = NoGm
    /\ NoMsmData
    /\ UNCHANGED <<window, num_threads, small_acc, handle, hw_gpus, fft_cuda, uploads, deinited, polyVars, parVars, scopeVars>>

\* best_fft_gpu: execute_ntt(a, log_n).unwrap() under the mutex, omega
\* unused; a panic is the unwrap of an Err or a panic inside execute_ntt
BestFftGpu ==
    /\ pc = "fft_entry"
    /\ fft_cuda
    /\ \E res \in execute_ntt(handle, buf, log_n) :
          /\ handle' = res.h
          /\ ret' = res.r
          /\ buf' = res.out
          /\ used_gm' = res.gm
          /\ pc' = (IF res.r # "Ok" THEN "panicked" ELSE "dev_returned")
    /\ UNCHANGED <<num_threads, buf0, omega, log_n, msmVars, hw_gpus, fft_cuda, call, msm_result, uploads, deinited, polyVars, parVars, scopeVars>>

\* best_fft_cpu: `assert_eq!(n, 1 << log_n)`
FftCheckLength ==
    /\ pc = "fft_entry"
    /\ ~fft_cuda
    /\ pc' = (IF Len(buf) # Pow2(log_n) THEN "panicked" ELSE "fft_checked")
    /\ UNCHANGED <<num_threads, fftVars, msmVars, polyVars, parVars, scopeVars, devVars>>

\* the loop that swaps a[k] and a[bitreverse(k)]
FftBitReverse ==
    /\ pc = "fft_checked"
    /\ buf' = BitReverseFrom(buf, log_n, 0)
    /\ pc' = "fft_permuted"
    /\ UNCHANGED <<num_threads, buf0, omega, log_n, msmVars, polyVars, parVars, scopeVars, devVars>>

\* the twiddle factors and the butterfly passes of either strategy
FftButterflies ==
    /\ pc = "fft_permuted"
    /\ LET n == Len(buf)
           twiddles == Twiddles(omega, n)
       IN buf' = (IF FftIterative(log_n, num_threads)
                  THEN IterativeStages(buf, 2, n \div 2, twiddles, log_n)
                  ELSE recursive_butterfly_arithmetic(buf, n, 1, twiddles))
    /\ pc' = "dev_returned"
    /\ ret' = "Ok"
    /\ UNCHANGED <<num_threads, buf0, omega, log_n, msmVars, handle, hw_gpus, fft_cuda, call, msm_result, used_gm, uploads, deinited, polyVars, parVars, scopeVars>>

FftCheckNext ==
    \/ BestFftInitGpu
    \/ BestFftEntry
    \/ BestFftGpu
    \/ FftCheckLength
    \/ FftBitReverse
    \/ FftButterflies
    \/ DropResult

SpecFftCheck == FftCheckInit /\ [][FftCheckNext]_vars

\* C14 (as the claim states it): a best_fft call on a buffer whose length is
\* not 2^log_n goes no further than its entry: it aborts, and the buffer is
\* the caller's.
C14_LengthCheckedBeforeMutation ==
    (call.name = "best_fft" /\ Len(buf0) # Pow2(log_n)) =>
        /\ pc \in {"fft_entry", "panicked"}
        /\ buf = buf0

\* C15 (as the claim states it): after a best_fft or best_multiexp call made
\* while the manager has no available device (none enumerated, none
\* initialised, or after deinit), the call has returned with the result of
\* the CPU algorithm, neither panicked nor failed.
C15_NoDeviceFallsBackToCpu ==
    (/\ call.name \in {"best_fft", "best_multiexp"}
     /\ get_available_device(handle).id = NO_AVAILABE_DEVICE)
        => /\ pc = "dev_returned"
           /\ ret = "Ok"
           /\ call.name = "best_fft"
                => buf = best_fft_cpu(buf0, omega, log_n, num_threads)
           /\ call.name = "best_multiexp"
                => acc = best_multiexp_cpu(coeffs, bases, num_threads)

\* C16 (as the claim states it): whenever an execute_msm call, made directly
\* or by best_multiexp_gpu, ran no session (no available device, or no MSM
\* parameter unit under the requested param_id), it returned an error, and
\* best_multiexp_gpu did not return a group element to its caller.
C16_MsmFailureIsDistinguishable ==
    (/\ call.name \in {"execute_msm", "best_multiexp_gpu"}
     /\ used_gm = NoGm)
        => /\ ret # "Ok"
           /\ call.name = "best_multiexp_gpu" => pc = "panicked"

\* C17 (as the claim states it): a best_fft call that returned left the
\* buffer as best_fft_cpu leaves it for the omega and log_n of the call,
\* whichever backend ran and whatever omega was uploaded before.
C17_BestFftAgreesWithCpu ==
    (call.name = "best_fft" /\ pc = "dev_returned")
        => buf = best_fft_cpu(buf0, omega, log_n, num_threads)

\* C18: when every param_id was initialised for MSM with at most one set of
\* bases, a session run by execute_msm(id, ...) used the bases uploaded
\* under that same id.
C18_RunsOnUnitOfSameId ==
    (/\ call.name \in {"execute_msm", "best_multiexp_gpu"}
     /\ \A id \in ParamIds : Cardinality(uploads[id]) <= 1
     /\ used_gm # NoGm)
        => /\ used_gm.bases # <<>>
           /\ used_gm.bases[1] \in uploads[call.param_id]

\* execute_msm for the second id returned after both ids were initialised
\* with different bases, the first id first
C18_Witness ==
    /\ pc = "dev_returned"
    /\ call.name = "execute_msm"
    /\ call.param_id = 2
    /\ Cardinality(uploads[1]) = 1
    /\ Cardinality(uploads[2]) = 1
    /\ uploads[1] # uploads[2]
    /\ Len(handle.msm_param_uints) = 2
    /\ handle.msm_param_uints[1].param_id = 1
    /\ used_gm # NoGm
    /\ msm_result # <<>>

(***************************************************************************)
(* recursive_butterfly_arithmetic as tasks.  The calls form a binary tree, *)
(* numbered as a heap: call 1 is the one best_fft_cpu makes, calls 2k and  *)
(* 2k + 1 are the two closures call k hands to rayon::join.  scope_tasks   *)
(* holds the position of every call: "none" (not made), "entered", "join"  *)
(* (inside rayon::join) or "done".                                         *)
(***************************************************************************)
\* the recursion depth of call k
RecDepth(k) == log2_floor(k)

\* the length n of the slice call k is handed, for a buffer of length total
RecLen(total, k) == total \div Pow2(RecDepth(k))

\* the offset in the buffer of the slice call k is handed (split_at_mut)
RecLo(total, k) == (k - Pow2(RecDepth(k))) * RecLen(total, k)

\* the positions (from 1) of the buffer call k may write
RecRange(total, k) == (RecLo(total, k) + 1)..(RecLo(total, k) + RecLen(total, k))

\* the argument twiddle_chunk of call k
RecTwiddleChunk(k) == Pow2(RecDepth(k))

\* the slice of call k
RecSlice(s, k) == SubSeq(s, RecLo(Len(s), k) + 1, RecLo(Len(s), k) + RecLen(Len(s), k))

\* the buffer with the slice of call k replaced by block
RecWrite(s, k, block) ==
    SubSeq(s, 1, RecLo(Len(s), k)) \o block
        \o SubSeq(s, RecLo(Len(s), k) + Len(block) + 1, Len(s))

\* rayon::join runs its first closure on the calling worker and leaves the
\* second to be stolen: with one worker the second starts after the first
RecSchedulable(tasks, k, threads) ==
    IF threads > 1 \/ k = 1 \/ k % 2 = 0 THEN TRUE ELSE tasks[k - 1] = "done"

\* a join that returns once its first closure has returned
LeftHalfDone(tasks, k) == tasks[2 * k] = "done"

\* rayon::join returns when both closures have returned
BothHalvesDone(tasks, k) == tasks[2 * k] = "done" /\ tasks[(2 * k) + 1] = "done"

RecInit ==
    /\ ParIdle
    /\ MsmIdle
    /\ PolyIdle
    /\ ScopeIdle
    /\ DevIdle
    /\ pc = "rec_call"
    /\ num_threads \in {1, 2}
    /\ log_n \in 1..MaxLogN
    /\ ~FftIterative(log_n, num_threads)
    /\ omega \in RootsOfOrder(Pow2(log_n))
    /\ buf0 \in CheckBuffers(Pow2(log_n))
    /\ buf = buf0

\* best_fft_cpu up to its call of recursive_butterfly_arithmetic
RecEnter ==
    /\ pc = "rec_call"
    /\ buf' = BitReverseFrom(buf, log_n, 0)
    /\ scope_tasks' = [k \in 1..(Pow2(log_n) - 1) |-> IF k = 1 THEN "entered" ELSE "none"]
    /\ pc' = "rec_running"
    /\ UNCHANGED <<num_threads, buf0, omega, log_n, scope_chunk, scope_slots,
                   msmVars, polyVars, parVars, devVars>>

\* call k with n == 2: the one butterfly
RecLeaf(k) ==
    /\ pc = "rec_running"
    /\ k \in 1..Len(scope_tasks)
    /\ scope_tasks[k] = "entered"
    /\ RecSchedulable(scope_tasks, k, num_threads)
    /\ RecLen(Len(buf), k) = 2
    /\ buf' = RecWrite(buf, k,
                  recursive_butterfly_arithmetic(RecSlice(buf, k), 2, RecTwiddleChunk(k),
                                                 Twiddles(omega, Len(buf))))
    /\ scope_tasks' = [scope_tasks EXCEPT ![k] = "done"]
    /\ UNCHANGED <<pc, num_threads, buf0, omega, log_n, scope_chunk, scope_slots,
                   msmVars, polyVars, parVars, devVars>>

\* call k with n > 2: split_at_mut and rayon::join on the two halves
RecFork(k) ==
    /\ pc = "rec_running"
    /\ k \in 1..Len(scope_tasks)
    /\ scope_tasks[k] = "entered"
    /\ RecSchedulable(scope_tasks, k, num_threads)
    /\ RecLen(Len(buf), k) > 2
    /\ scope_tasks' = [scope_tasks EXCEPT ![k] = "join",
                                          ![2 * k] = "entered",
                                          ![(2 * k) + 1] = "entered"]
    /\ UNCHANGED <<pc, num_threads, buf, buf0, omega, log_n, scope_chunk, scope_slots,
                   msmVars, polyVars, parVars, devVars>>

\* call k after rayon::join: the butterfly pass over its two halves
RecCombine(k) ==
    /\ pc = "rec_running"
    /\ k \in 1..Len(scope_tasks)
    /\ scope_tasks[k] = "join"
    /\ BothHalvesDone(scope_tasks, k)
    /\ buf' = RecWrite(buf, k, ButterflyPass(RecSlice(buf, k), RecTwiddleChunk(k),
                                             Twiddles(omega, Len(buf))))
    /\ scope_tasks' = [scope_tasks EXCEPT ![k] = "done"]
    /\ UNCHANGED <<pc, num_threads, buf0, omega, log_n, scope_chunk, scope_slots,
                   msmVars, polyVars, parVars, devVars>>

\* the call best_fft_cpu made returns, and best_fft_cpu with it
RecReturn ==
    /\ pc = "rec_running"
    /\ scope_tasks[1] = "done"
    /\ pc' = "fft_done"
    /\ UNCHANGED <<num_threads, fftVars, scopeVars, msmVars, polyVars, parVars, devVars>>

RecNext ==
    \/ RecEnter
    \/ \E k \in 1..(Pow2(MaxLogN) - 1) : RecLeaf(k)
    \/ \E k \in 1..(Pow2(MaxLogN) - 1) : RecFork(k)
    \/ \E k \in 1..(Pow2(MaxLogN) - 1) : RecCombine(k)
    \/ RecReturn

SpecRec == RecInit /\ [][RecNext]_vars

\* the calls that have a butterfly to write next: an entered call with
\* n == 2, or a call whose rayon::join can return
RecWriters ==
    {k \in 1..Len(scope_tasks) :
        \/ scope_tasks[k] = "entered" /\ RecLen(Len(buf), k) = 2
        \/ scope_tasks[k] = "join" /\ BothHalvesDone(scope_tasks, k)}

\* C21: at every level of the recursion a call has done its butterfly pass
\* only when both calls on its halves are done; the two halves are disjoint
\* and make up the slice; no two calls that can write next share a position;
\* and the buffer best_fft_cpu returns is the one the sequential recursion
\* gives, whatever the order the calls ran in.
C21_CombineAfterBothHalves ==
    pc \in {"rec_running", "fft_done"} =>
        /\ \A k \in 1..Len(scope_tasks) :
              (2 * k) + 1 <= Len(scope_tasks) =>
                  /\ scope_tasks[k] = "done" => BothHalvesDone(scope_tasks, k)
                  /\ scope_tasks[k] \in {"none", "entered"} =>
                        scope_tasks[2 * k] = "none" /\ scope_tasks[(2 * k) + 1] = "none"
                  /\ RecRange(Len(buf), 2 * k) \cap RecRange(Len(buf), (2 * k) + 1) = {}
                  /\ RecRange(Len(buf), 2 * k) \cup RecRange(Len(buf), (2 * k) + 1)
                        = RecRange(Len(buf), k)
        /\ \A j \in RecWriters : \A k \in RecWriters :
              j # k => RecRange(Len(buf), j) \cap RecRange(Len(buf), k) = {}
        /\ pc = "fft_done" => buf = best_fft_cpu(buf0, omega, log_n, num_threads)

\* with two workers and three levels, the call on the right half is done
\* while the one on the left half is still in its join, and the outermost
\* call waits for it
C21_Witness ==
    /\ pc = "rec_running"
    /\ num_threads = 2
    /\ log_n = 3
    /\ scope_tasks[1] = "join"
    /\ scope_tasks[3] = "done"
    /\ scope_tasks[2] = "join"
    /\ scope_tasks[4] = "done"
    /\ scope_tasks[5] = "entered"

\* C22: whenever a call on the manager has returned, Ok or Err, and while
\* no call is in progress, every entry of devices has status
\* DeviceStatusReady; and no execute_msm or execute_ntt, called directly or
\* by best_multiexp_gpu or best_fft, ended in a todo!() arm of
\* get_available_device.
C22_DevicesReadyBetweenCalls ==
    /\ pc \in {"dev_idle", "dev_returned"} =>
          \A i \in 1..Len(handle.devices) :
              handle.devices[i].device_status = "DeviceStatusReady"
    /\ call.name \in {"execute_msm", "execute_ntt", "best_multiexp_gpu", "best_fft"} =>
          ret # "todo"

\* execute_msm has run a session on a device and returned, and the device
\* it ran on is back from Running
C22_Witness ==
    /\ pc = "dev_returned"
    /\ call.name = "execute_msm"
    /\ ret = "Ok"
    /\ used_gm # NoGm
    /\ handle.devices # <<>>
    /\ handle.devices[1].device_status = "DeviceStatusReady"
    /\ handle.devices[1].device_unit_type = "DeviceUnitTypeNone"

\* C23 (as the claim states it): an execute_ntt call, after any init and
\* deinit calls, either ran the NTT or returned
\* Err(DeviceManagerErrorNoAvailableDevice); it did not panic on
\* ntt_param_uints[0].
C23_NttParamUnitInBounds ==
    call.name = "execute_ntt" =>
        /\ pc = "dev_returned"
        /\ \/ ret = "Ok" /\ used_gm # NoGm
           \/ ret = "DeviceManagerErrorNoAvailableDevice"

\* C24: when deinit has returned the manager is as DeviceManager::new left
\* it; from then until an init succeeds it has no active device, no device
\* and no parameter unit, and an execute_msm or execute_ntt call made in
\* that time returned Err(DeviceManagerErrorNoAvailableDevice), ran no
\* session and left the caller's buffer as it was.
C24_NothingRunsAfterDeinit ==
    /\ (call.name = "deinit" /\ pc = "dev_returned") =>
          /\ handle.gpu_device_num = 0
          /\ handle.actived_device_num = 0
          /\ handle.devices = <<>>
          /\ handle.msm_param_uints = <<>>
          /\ handle.ntt_param_uints = <<>>
          /\ handle.init_flag = FALSE
    /\ deinited # <<>> =>
          /\ handle.actived_device_num = 0
          /\ handle.devices = <<>>
          /\ handle.msm_param_uints = <<>>
          /\ handle.ntt_param_uints = <<>>
          /\ handle.init_flag = FALSE
          /\ call.name \in {"execute_msm", "execute_ntt"} =>
                /\ pc = "dev_returned"
                /\ ret = "DeviceManagerErrorNoAvailableDevice"
                /\ used_gm = NoGm
                /\ msm_result = <<>>
                /\ buf = buf0

\* execute_msm returned its error after a deinit that dropped devices and
\* an init that failed since (it left the GPU count behind)
C24_Witness ==
    /\ pc = "dev_returned"
    /\ deinited # <<>>
    /\ deinited[1] > 0
    /\ handle.gpu_device_num > 0
    /\ call.name = "execute_msm"
    /\ ret = "DeviceManagerErrorNoAvailableDevice"

\* C1 (as the claim states it): on coeffs and bases of equal length, of
\* whatever length, best_multiexp_cpu does not panic, and whenever both
\* algorithms have run on the same (coeffs, bases), the bucket method (serial
\* or chunked over the workers) and double-and-add returned the same group
\* element.
C1_BucketAgreesWithDoubleAndAdd ==
    Len(coeffs) = Len(bases) =>
        /\ pc # "panicked"
        /\ pc = "msm_done" => acc = small_acc

====
